---- MODULE Spec2Model ----
(***************************************************************************)
(* Model of easysnmp/interface.c: the request/retry orchestrator           *)
(* (__send_sync_pdu) and the fetch / walk entry points built on it         *)
(* (netsnmp_get, netsnmp_getnext, netsnmp_getbulk, netsnmp_walk,           *)
(* netsnmp_bulkwalk).                                                      *)
(***************************************************************************)
EXTENDS Integers, Sequences, FiniteSets, TLC

(***************************************************************************)
(* Bounds of the model.                                                    *)
(***************************************************************************)
\* largest batch handed to __send_sync_pdu in the orchestrator specification
MaxBatch == 5
\* the transport answers at most MaxBatch + ExtraExchanges times per call
ExtraExchanges == 2
\* longest variable list of a response to a fetch or walk request
MaxVars == 2
\* number of exchanges a fetch or walk call may perform
MaxRounds == 2
\* longest tag handed to the resolver
MaxTagLen == 3
\* longest instance string handed to the resolver
MaxIidLen == 2
\* sessions alive at once, each used by its own thread
MaxSessions == 2
\* calls made by all sessions together
MaxCalls == 3
\* largest number of tuples handed to a write call
MaxTuples == 2
\* value lengths tried: 0..MaxValLen, and the capacity of the buffer less 1
\* up to the capacity plus MaxValLen
MaxValLen == 2
\* characters foreign to every type name that follow a prefix of a name in
\* the type specifiers tried
MaxTail == 1

(***************************************************************************)
(* Constants of net-snmp used by the code.                                 *)
(***************************************************************************)
STAT_SUCCESS == 0
STAT_ERROR == 1
STAT_TIMEOUT == 2
SNMP_ERR_NOERROR == 0
SNMP_ERR_TOOBIG == 1
SNMP_ERR_NOSUCHNAME == 2
SNMP_ERR_GENERR == 5
SNMP_ERR_INCONSISTENTNAME == 18
SNMPERR_BAD_SESSION == 0 - 4
SNMPERR_TIMEOUT == 0 - 24
SNMPERR_GENERR == 0 - 1
NO_RETRY_NOSUCH == 0
SUCCESS == 1
FAILURE == 0
MAX_OID_LEN == 128

\* remote error statuses other than no-error and no-such-name; the last one
\* is beyond the statuses the switch names and takes its default branch
OtherErrStats == {SNMP_ERR_TOOBIG, SNMP_ERR_GENERR, SNMP_ERR_INCONSISTENTNAME + 1}

(***************************************************************************)
(* Data: PDUs, responses, the bit array.                                   *)
(* A varbind is [name, type, orig]; orig is the position the entry had in  *)
(* the request the call started with (bookkeeping of the model only).      *)
(***************************************************************************)
NoPdu == [null |-> TRUE, command |-> "", variables |-> <<>>]

Pdu(command, variables) ==
  [null |-> FALSE, command |-> command, variables |-> variables]

NoResponse == [null |-> TRUE, errstat |-> 0, errindex |-> 0, variables |-> <<>>]

Response(errstat, errindex, variables) ==
  [null |-> FALSE, errstat |-> errstat, errindex |-> errindex,
   variables |-> variables]

NoBitarray == [null |-> TRUE, bits |-> {}]

EmptyBitarray == [null |-> FALSE, bits |-> {}]

bitarray_set_bit(ba, bit) == [ba EXCEPT !.bits = @ \cup {bit}]

\* snmp_add_null_var: one ASN_NULL varbind appended to the request
snmp_add_null_var(p, name, orig) ==
  [p EXCEPT !.variables = Append(@, [name |-> name, type |-> "ASN_NULL", orig |-> orig])]

RemoveAt(s, i) == [k \in 1..(Len(s) - 1) |-> IF k < i THEN s[k] ELSE s[k + 1]]

\* snmp_fix_pdu(*response, command): the response's variables without the one
\* at errindex, as a request of the given command; NULL when the index is out
\* of range or nothing remains
snmp_fix_pdu(resp, command) ==
  IF resp.null \/ resp.errstat = SNMP_ERR_NOERROR \/ resp.variables = <<>>
     \/ resp.errindex > Len(resp.variables) \/ resp.errindex <= 0
  THEN NoPdu
  ELSE IF Len(resp.variables) = 1
       THEN NoPdu
       ELSE Pdu(command, RemoveAt(resp.variables, resp.errindex))

\* bitarray_set_bit(ba, bit) when ba may be a null pointer: the bit is set in
\* an array that exists; through a null pointer the write either faults or,
\* if the bit array code guards against it, has no effect
NullWriteOutcomes(ba) == IF ba.null THEN {"crash", "skip"} ELSE {"set"}

\* strcmp(a, b): zero exactly when the strings are equal
strcmp(a, b) == IF a = b THEN 0 ELSE 1

(***************************************************************************)
(* Decisions of __send_sync_pdu.                                           *)
(***************************************************************************)
\* a plausible slip: the session check never fires
SessionAbsent_never(s) == FALSE

\* line 1015: ss == NULL
SessionAbsent(s) == s = "NULL"

\* lines 1029-1036: a success without a response is an error, and an error
\* is turned into a timeout when err_str differs from "Timeout"
FixStatus(st, resp, errstr) ==
  LET st1 == IF resp.null /\ st = STAT_SUCCESS THEN STAT_ERROR ELSE st
  IN IF strcmp(errstr, "Timeout") # 0 /\ st1 = STAT_ERROR
     THEN STAT_TIMEOUT
     ELSE st1

\* a plausible slip: every no-such-name answer is retried
RetryApplies_always(rn) == TRUE

\* line 1051: if (retry_nosuch)
RetryApplies(rn) == rn # NO_RETRY_NOSUCH

\* a plausible slip: an index equal to the last one is applied directly
ErrIndexBit_not_greater(last, errindex, rnum) ==
  IF last = 0 \/ last >= errindex THEN errindex - 1 ELSE errindex - 1 + rnum

\* a plausible slip: the one-based index is used as the bit position
ErrIndexBit_one_based(last, errindex, rnum) ==
  IF last = 0 \/ last > errindex THEN errindex ELSE errindex + rnum

\* a plausible slip: the offset is applied in every round
ErrIndexBit_always_offset(last, errindex, rnum) == errindex - 1 + rnum

\* a plausible slip: the offset is never applied
ErrIndexBit_never_offset(last, errindex, rnum) == errindex - 1

\* lines 1066-1075: the bit marked for a reported error index
ErrIndexBit(last, errindex, rnum) ==
  IF last = 0
  THEN errindex - 1
  ELSE IF last > errindex
       THEN errindex - 1
       ELSE errindex - 1 + rnum

\* a plausible slip: the request sent before is sent again
ResubmitPdu_old(fixed, old) == old

\* line 1087: pdu = snmp_fix_pdu(*response, command), the request of the
\* next exchange
ResubmitPdu(fixed, old) == fixed

\* a plausible slip: the remote status is not copied
RemoteErrNum_zero(resp) == 0

\* line 1135: *err_num = (*response)->errstat
RemoteErrNum(resp) == resp.errstat

\* line 1136: *err_ind = (*response)->errindex
RemoteErrInd(resp) == resp.errindex

\* snmp_errstring / snmp_api_errstring: a text per code
snmp_errstring(code) ==
  CASE code = SNMP_ERR_TOOBIG -> "tooBig"
    [] code = SNMP_ERR_NOSUCHNAME -> "noSuchName"
    [] code = SNMP_ERR_GENERR -> "genErr"
    [] code = SNMPERR_BAD_SESSION -> "Unknown session"
    [] OTHER -> "Unknown Error"

(***************************************************************************)
(* The resolver: __scan_num_objid, __sprint_num_objid, __concat_oid_str,   *)
(* __tag2oid.  A string is a sequence of characters; an object identifier  *)
(* is a sequence of numbers, one per cell written or counted.              *)
(***************************************************************************)
\* the characters of the tags and instance strings handed to the resolver
Chars == {"1", "2", ".", "a"}

Strings(n) == UNION { [1..k -> Chars] : k \in 0..n }

\* what a cell that was never written may hold
StaleWords == {0, 7}

UpperCase ==
  <<"A", "B", "C", "D", "E", "F", "G", "H", "I", "J", "K", "L", "M",
    "N", "O", "P", "Q", "R", "S", "T", "U", "V", "W", "X", "Y", "Z">>

LowerCase ==
  <<"a", "b", "c", "d", "e", "f", "g", "h", "i", "j", "k", "l", "m",
    "n", "o", "p", "q", "r", "s", "t", "u", "v", "w", "x", "y", "z">>

\* isalpha of the C library
isalpha(c) == \E i \in 1..Len(UpperCase) : c = UpperCase[i] \/ c = LowerCase[i]

isdigit(c) == c \in {"0", "1", "2", "3", "4", "5", "6", "7", "8", "9"}

DigitVal(c) ==
  CASE c = "0" -> 0 [] c = "1" -> 1 [] c = "2" -> 2 [] c = "3" -> 3 [] c = "4" -> 4
    [] c = "5" -> 5 [] c = "6" -> 6 [] c = "7" -> 7 [] c = "8" -> 8 [] c = "9" -> 9

DigitChar(d) ==
  CASE d = 0 -> "0" [] d = 1 -> "1" [] d = 2 -> "2" [] d = 3 -> "3" [] d = 4 -> "4"
    [] d = 5 -> "5" [] d = 6 -> "6" [] d = 7 -> "7" [] d = 8 -> "8" [] d = 9 -> "9"

\* the character at position i of a C string, the terminator past its end
CharAt(str, i) == IF i <= Len(str) THEN str[i] ELSE "NUL"

RECURSIVE DigitRun(_, _, _)
DigitRun(str, i, acc) ==
  IF isdigit(CharAt(str, i))
  THEN DigitRun(str, i + 1, acc * 10 + DigitVal(str[i]))
  ELSE acc

\* sscanf(cp, "%lu", p) on the string from position i: the digits up to the
\* first other character; without a digit nothing is converted and *p is
\* not written
sscanf_lu(str, i) ==
  [converted |-> isdigit(CharAt(str, i)), val |-> DigitRun(str, i, 0)]

\* the content of a cell after sscanf(cp, "%lu", cell): the number read, or
\* what the cell held before
StoreScanned(str, cp, before) ==
  IF sscanf_lu(str, cp).converted THEN sscanf_lu(str, cp).val ELSE before

\* sprintf(buf, "%lu", n)
RECURSIVE DecStr(_)
DecStr(n) == IF n < 10 THEN <<DigitChar(n)>> ELSE DecStr(n \div 10) \o <<DigitChar(n % 10)>>

\* __sprint_num_objid: ".%lu" per component
RECURSIVE __sprint_num_objid(_, _)
__sprint_num_objid(objid, len) ==
  IF len = 0
  THEN <<>>
  ELSE __sprint_num_objid(objid, len - 1) \o (<<".">> \o DecStr(objid[len]))

\* the character isalpha is applied to in the loop of __scan_num_objid: buf
\* was advanced by the comparison with the separator (line 505), so it is the
\* character after the one compared (line 511)
ScanTested(str, i) == CharAt(str, i + 1)

\* the loop of __scan_num_objid from position i, cp the start of the current
\* component, objid the cells counted so far
RECURSIVE ScanLoop(_, _, _, _, _)
ScanLoop(str, i, cp, objid, before) ==
  IF i > Len(str)
  THEN [ret |-> SUCCESS, objid |-> Append(objid, StoreScanned(str, cp, before))]
  ELSE IF str[i] = "."
  THEN ScanLoop(str, i + 1, i + 1, Append(objid, StoreScanned(str, cp, before)), before)
  ELSE IF isalpha(ScanTested(str, i))
  THEN [ret |-> FAILURE, objid |-> objid]
  ELSE ScanLoop(str, i + 1, cp, objid, before)

\* __scan_num_objid(buf, objid, &len) on cells that held `before`
__scan_num_objid(buf, before) ==
  LET first == IF CharAt(buf, 1) = "." THEN 2 ELSE 1
      r == ScanLoop(buf, first, first, <<>>, before)
  IN [ret |-> r.ret, objid |-> r.objid, len |-> Len(r.objid)]

\* strtok_r(.., "."): the non-empty runs of characters between separators
RECURSIVE strtok_r(_, _, _)
strtok_r(str, i, cp) ==
  IF i > Len(str)
  THEN IF cp < i THEN <<SubSeq(str, cp, i - 1)>> ELSE <<>>
  ELSE IF str[i] = "."
  THEN (IF cp < i THEN <<SubSeq(str, cp, i - 1)>> ELSE <<>>) \o strtok_r(str, i + 1, i + 1)
  ELSE strtok_r(str, i + 1, cp)

\* __concat_oid_str: one cell per token of soid_str, counted whether or not
\* a number was read into it
__concat_oid_str(doid_arr, soid_str, before) ==
  IF soid_str = <<>>
  THEN doid_arr
  ELSE LET from == IF soid_str[1] = "." THEN 2 ELSE 1
           toks == strtok_r(soid_str, from, from)
       IN doid_arr \o [k \in 1..Len(toks) |-> StoreScanned(toks[k], 1, before)]

\* the naming tree loaded in the library: one named node
MibNode == [label |-> <<"a", "a">>, path |-> <<1, 2>>]

NotFound == [found |-> FALSE, path |-> <<>>]

StripDot(str) == IF CharAt(str, 1) = "." THEN SubSeq(str, 2, Len(str)) ELSE str

\* find_node(tag, get_tree_head()): a node by its label
find_node(tag) ==
  IF tag = MibNode.label THEN [found |-> TRUE, path |-> MibNode.path] ELSE NotFound

\* get_node(tag, newname, &newname_len): a node by its label, a leading
\* separator ignored; a failed search leaves newname and newname_len alone
get_node(tag) == find_node(StripDot(tag))

\* get_wild_node(tag, newname, &newname_len): the best match, then get_node
get_wild_node(tag) == get_node(tag)

\* read_objid(tag, newname, &newname_len): a full name
read_objid(tag) ==
  IF CharAt(tag, 1) = "." THEN find_node(StripDot(tag)) ELSE NotFound

strchr(str, c) == \E i \in 1..Len(str) : str[i] = c

\* newname as copied by memcpy(oid_arr, newname, newname_len * sizeof(oid)):
\* the cells written, then cells never written
CopyOfNewname(written, newname_len, before) ==
  [k \in 1..newname_len |-> IF k <= Len(written) THEN written[k] ELSE before]

\* lines 826-830: if (iid && *iid && oid_arr_len) __concat_oid_str(...)
AppendInstance(oid_arr, iid, before) ==
  IF iid # <<>> THEN __concat_oid_str(oid_arr, iid, before) ELSE oid_arr

\* __tag2oid(tag, iid, oid_arr, &oid_arr_len, NULL, best_guess) as
\* snmp_op_data_load calls it: the path left in oid_arr, oid_arr_len its
\* length
__tag2oid(tag, iid, best_guess, before) ==
  LET sc == __scan_num_objid(tag, before)
  IN IF best_guess = 1 \/ best_guess = 2
     THEN LET look == IF best_guess = 2 THEN get_node(tag) ELSE get_wild_node(tag)
              newname == IF sc.ret = FAILURE
                         THEN IF look.found
                              THEN look.path
                              ELSE CopyOfNewname(sc.objid, MAX_OID_LEN, before)
                         ELSE sc.objid
          IN AppendInstance(newname, iid, before)
     ELSE IF strchr(tag, ".") \/ strchr(tag, ":")
     THEN LET look == read_objid(tag)
              newname == IF sc.ret = FAILURE
                         THEN IF look.found THEN look.path ELSE <<>>
                         ELSE sc.objid
          IN AppendInstance(newname, iid, before)
     ELSE IF find_node(tag).found
          THEN AppendInstance(find_node(tag).path, iid, before)
          ELSE <<>>

(***************************************************************************)
(* Type names: __translate_appl_type and the C library comparisons it      *)
(* uses.  A type tag is written by its name in the code; TYPE_UNKNOWN and  *)
(* TYPE_OTHER are both 0.                                                  *)
(***************************************************************************)
TYPE_UNKNOWN == "TYPE_OTHER"

\* tolower of the C library
tolower(c) ==
  IF \E i \in 1..Len(UpperCase) : UpperCase[i] = c
  THEN LowerCase[CHOOSE i \in 1..Len(UpperCase) : UpperCase[i] = c]
  ELSE c

\* a plausible slip: the comparison respects case (strncmp)
strncasecmp_case(a, b, n) ==
  IF \A i \in 1..n :
       (\A j \in 1..(i - 1) : CharAt(a, j) # "NUL") => CharAt(a, i) = CharAt(b, i)
  THEN 0
  ELSE 1

\* strncasecmp(a, b, n): zero exactly when the strings agree, case ignored,
\* on their first n characters or up to the terminator of both
strncasecmp(a, b, n) ==
  IF \A i \in 1..n :
       (\A j \in 1..(i - 1) : CharAt(a, j) # "NUL")
       => tolower(CharAt(a, i)) = tolower(CharAt(b, i))
  THEN 0
  ELSE 1

\* strcasecmp(a, b): the whole strings, terminator included
strcasecmp(a, b) ==
  strncasecmp(a, b, (IF Len(a) > Len(b) THEN Len(a) ELSE Len(b)) + 1)

\* the characters of a string literal of the code
CString(s) ==
  CASE s = "OBJECTID" -> <<"O", "B", "J", "E", "C", "T", "I", "D">>
    [] s = "OCTETSTR" -> <<"O", "C", "T", "E", "T", "S", "T", "R">>
    [] s = "INTEGER" -> <<"I", "N", "T", "E", "G", "E", "R">>
    [] s = "INTEGER32" -> <<"I", "N", "T", "E", "G", "E", "R", "3", "2">>
    [] s = "UNSIGNED32" -> <<"U", "N", "S", "I", "G", "N", "E", "D", "3", "2">>
    [] s = "NETADDR" -> <<"N", "E", "T", "A", "D", "D", "R">>
    [] s = "IPADDR" -> <<"I", "P", "A", "D", "D", "R">>
    [] s = "COUNTER" -> <<"C", "O", "U", "N", "T", "E", "R">>
    [] s = "GAUGE" -> <<"G", "A", "U", "G", "E">>
    [] s = "TICKS" -> <<"T", "I", "C", "K", "S">>
    [] s = "OPAQUE" -> <<"O", "P", "A", "Q", "U", "E">>
    [] s = "COUNTER64" -> <<"C", "O", "U", "N", "T", "E", "R", "6", "4">>
    [] s = "NULL" -> <<"N", "U", "L", "L">>
    [] s = "ENDOFMIBVIEW" -> <<"E", "N", "D", "O", "F", "M", "I", "B", "V", "I", "E", "W">>
    [] s = "NOSUCHOBJECT" -> <<"N", "O", "S", "U", "C", "H", "O", "B", "J", "E", "C", "T">>
    [] s = "NOSUCHINSTANCE" -> <<"N", "O", "S", "U", "C", "H", "I", "N", "S", "T", "A", "N", "C", "E">>
    [] s = "UINTEGER" -> <<"U", "I", "N", "T", "E", "G", "E", "R">>
    [] s = "NOTIF" -> <<"N", "O", "T", "I", "F">>
    [] s = "BITS" -> <<"B", "I", "T", "S">>
    [] s = "TRAP" -> <<"T", "R", "A", "P">>
    [] OTHER -> <<>>

\* a plausible slip: COUNTER is compared on three characters like its
\* neighbours
MatchCounter_prefix(typestr) == strncasecmp(typestr, CString("COUNTER"), 3) = 0

\* line 272: !strcasecmp(typestr, "COUNTER")
MatchCounter(typestr) == strcasecmp(typestr, CString("COUNTER")) = 0

\* __translate_appl_type(typestr)
__translate_appl_type(typestr) ==
  IF typestr = <<>>
  THEN TYPE_UNKNOWN
  ELSE IF CharAt(typestr, 2) = "NUL"
  THEN CASE typestr[1] = "i" -> "TYPE_INTEGER"
         [] typestr[1] = "u" -> "TYPE_UNSIGNED32"
         [] typestr[1] = "s" -> "TYPE_OCTETSTR"
         [] typestr[1] = "n" -> "TYPE_NULL"
         [] typestr[1] = "o" -> "TYPE_OBJID"
         [] typestr[1] = "t" -> "TYPE_TIMETICKS"
         [] typestr[1] = "a" -> "TYPE_IPADDR"
         [] typestr[1] = "b" -> "TYPE_BITSTRING"
         [] OTHER -> TYPE_UNKNOWN
  ELSE IF strncasecmp(typestr, CString("INTEGER32"), 8) = 0 THEN "TYPE_INTEGER32"
  ELSE IF strncasecmp(typestr, CString("INTEGER"), 3) = 0 THEN "TYPE_INTEGER"
  ELSE IF strncasecmp(typestr, CString("UNSIGNED32"), 3) = 0 THEN "TYPE_UNSIGNED32"
  ELSE IF MatchCounter(typestr) THEN "TYPE_COUNTER"
  ELSE IF strncasecmp(typestr, CString("GAUGE"), 3) = 0 THEN "TYPE_GAUGE"
  ELSE IF strncasecmp(typestr, CString("IPADDR"), 3) = 0 THEN "TYPE_IPADDR"
  ELSE IF strncasecmp(typestr, CString("OCTETSTR"), 3) = 0 THEN "TYPE_OCTETSTR"
  ELSE IF strncasecmp(typestr, CString("TICKS"), 3) = 0 THEN "TYPE_TIMETICKS"
  ELSE IF strncasecmp(typestr, CString("OPAQUE"), 3) = 0 THEN "TYPE_OPAQUE"
  ELSE IF strncasecmp(typestr, CString("OBJECTID"), 3) = 0 THEN "TYPE_OBJID"
  ELSE IF strncasecmp(typestr, CString("NETADDR"), 3) = 0 THEN "TYPE_NETADDR"
  ELSE IF strncasecmp(typestr, CString("COUNTER64"), 3) = 0 THEN "TYPE_COUNTER64"
  ELSE IF strncasecmp(typestr, CString("NULL"), 3) = 0 THEN "TYPE_NULL"
  ELSE IF strncasecmp(typestr, CString("BITS"), 3) = 0 THEN "TYPE_BITSTRING"
  ELSE IF strncasecmp(typestr, CString("ENDOFMIBVIEW"), 3) = 0 THEN "SNMP_ENDOFMIBVIEW"
  ELSE IF strncasecmp(typestr, CString("NOSUCHOBJECT"), 7) = 0 THEN "SNMP_NOSUCHOBJECT"
  ELSE IF strncasecmp(typestr, CString("NOSUCHINSTANCE"), 7) = 0 THEN "SNMP_NOSUCHINSTANCE"
  ELSE IF strncasecmp(typestr, CString("UINTEGER"), 3) = 0 THEN "TYPE_UINTEGER"
  ELSE IF strncasecmp(typestr, CString("NOTIF"), 3) = 0 THEN "TYPE_NOTIFTYPE"
  ELSE IF strncasecmp(typestr, CString("TRAP"), 4) = 0 THEN "TYPE_TRAPTYPE"
  ELSE TYPE_UNKNOWN

(***************************************************************************)
(* Formatting a returned variable: __get_label_iid and __snprint_value.    *)
(* Flags are sets of flag names; a pointer into a string is the position   *)
(* of the character it points to, the terminator at Len + 1.               *)
(***************************************************************************)
MAX_TYPE_NAME_LEN == 32

STR_BUF_SIZE == MAX_TYPE_NAME_LEN * MAX_OID_LEN

USE_BASIC == 0

USE_ENUMS == 1

\* __is_numeric_oid(oidstr): no character is alphabetic
__is_numeric_oid(oidstr) == \A i \in 1..Len(oidstr) : ~isalpha(oidstr[i])

\* strncmp(lit, lcp, n) == 0, lit a literal of n characters
strncmp_at(lit, str, lcp) ==
  /\ lcp + Len(lit) - 1 <= Len(str)
  /\ SubSeq(str, lcp, lcp + Len(lit) - 1) = lit

\* lines 620-634: the walk backward for the last two separators; icp = 0
\* stands for NULL
RECURSIVE NumericLoop(_, _, _)
NumericLoop(str, lcp, icp) ==
  IF lcp <= 1
  THEN [lcp |-> lcp, icp |-> icp]
  ELSE IF CharAt(str, lcp) = "."
       THEN IF icp = 0
            THEN NumericLoop(str, lcp - 1, lcp)
            ELSE [lcp |-> lcp, icp |-> icp]
       ELSE NumericLoop(str, lcp - 1, icp)

\* lines 653-666: the walk backward for the last label
RECURSIVE LabelLoop(_, _, _, _)
LabelLoop(str, lcp, icp, found_label) ==
  IF lcp <= 1
  THEN [lcp |-> lcp, icp |-> icp, found_label |-> found_label]
  ELSE IF CharAt(str, lcp) = "." /\ found_label
       THEN [lcp |-> lcp + 1, icp |-> icp, found_label |-> found_label]
       ELSE LabelLoop(str, lcp - 1,
                      IF CharAt(str, lcp) = "." THEN lcp ELSE icp,
                      found_label \/ isalpha(CharAt(str, lcp)))

\* lines 685, 689, 693: name += 2 for each of the three aliases
AliasSkip(alias) == 2

\* the root aliases tested at lines 684-696 and the digit written for each
RootAliases ==
  << [text |-> <<".", "c", "c", "i", "t", "t", ".">>, digit |-> "0"],
     [text |-> <<".", "i", "s", "o", ".">>, digit |-> "1"],
     [text |-> <<".", "j", "o", "i", "n", "t", "-", "i", "s", "o", "-",
                 "c", "c", "i", "t", "t", ".">>, digit |-> "2"] >>

\* lines 683-697: the name after the substitution and the position the
\* pointer name is moved to
SubstituteAlias(str, lcp) ==
  IF CharAt(str, lcp) = "." /\ lcp = 1
     /\ \E k \in 1..Len(RootAliases) : strncmp_at(RootAliases[k].text, str, lcp)
  THEN LET a == RootAliases[CHOOSE k \in 1..Len(RootAliases) :
                              strncmp_at(RootAliases[k].text, str, lcp)]
           start == 1 + AliasSkip(a.text)
       IN [start |-> start,
           str |-> [str EXCEPT ![start] = ".", ![start + 1] = a.digit]]
  ELSE [start |-> 1, str |-> str]

\* __get_label_iid(name, &last_label, &iid, flag)
__get_label_iid(str, flag) ==
  IF Len(str) = 0
  THEN [ret |-> FAILURE, last_label |-> <<>>, iid |-> <<>>]
  ELSE IF "USE_NUMERIC_OIDS" \in flag
  THEN IF ~__is_numeric_oid(str)
       THEN [ret |-> FAILURE, last_label |-> <<>>, iid |-> <<>>]
       ELSE LET r == NumericLoop(str, Len(str) + 1, 0)
            IN IF r.icp = 0
               THEN [ret |-> FAILURE, last_label |-> <<>>, iid |-> <<>>]
               ELSE [ret |-> SUCCESS,
                     last_label |-> SubSeq(str, IF "USE_LONG_NAMES" \in flag THEN 1 ELSE r.lcp + 1,
                                           r.icp - 1),
                     iid |-> SubSeq(str, r.icp + 1, Len(str))]
  ELSE LET r == LabelLoop(str, Len(str) + 1, Len(str) + 1, FALSE)
       IN IF ~r.found_label
             \/ (~isdigit(CharAt(str, r.icp + 1)) /\ "FAIL_ON_NULL_IID" \in flag)
          THEN [ret |-> FAILURE, last_label |-> <<>>, iid |-> <<>>]
          ELSE IF "NON_LEAF_NAME" \in flag
          THEN LET sub == SubstituteAlias(str, r.lcp)
               IN [ret |-> SUCCESS,
                   last_label |-> SubSeq(sub.str, sub.start, Len(str)),
                   iid |-> <<>>]
          ELSE [ret |-> SUCCESS,
                last_label |-> SubSeq(str, IF "USE_LONG_NAMES" \in flag THEN 1 ELSE r.lcp,
                                      r.icp - 1),
                iid |-> SubSeq(str, r.icp + 1, Len(str))]

\* __snprint_value(buf, buf_len, var, tp, type, flag) for the flags other
\* than USE_SPRINT_VALUE: the length returned and the number of bytes copied
\* into buf (lines 406-413 for an octet string or opaque value, line 421 for
\* a null)
__snprint_value(buf_len, var, flag) ==
  IF var.type \in {"ASN_OCTET_STR", "ASN_OPAQUE"}
  THEN LET len == IF var.val_len > buf_len THEN buf_len ELSE var.val_len
       IN [len |-> len, copied |-> len]
  ELSE [len |-> 0, copied |-> 0]

\* line 1615: str_buf[val_len] = '\0'
TerminatorIndex(len, buf_len) == len

(***************************************************************************)
(* The write call: __add_var_val_str and the loop of netsnmp_set over the  *)
(* tuples.  A text value is [null, str]: null when the attribute cannot be *)
(* read as a string, str its characters.                                   *)
(***************************************************************************)
SizeofLong == 8

\* strtol(val, NULL, 0) on the values of the model: the leading digits
strtol(str) == DigitRun(str, 1, 0)

\* the varbind __add_var_val_str appends for a value pointer val (null: a
\* NULL pointer), len and type, and what it returns; `before` is what the
\* malloc'ed cell holds when the conversion writes nothing
VarVal(val, len, type, before) ==
  CASE type \in {"TYPE_INTEGER", "TYPE_INTEGER32"} ->
         [type |-> "ASN_INTEGER",
          val |-> IF ~val.null THEN strtol(val.str) ELSE 0,
          val_len |-> SizeofLong,
          ret |-> IF ~val.null THEN SUCCESS ELSE FAILURE]
    [] type \in {"TYPE_GAUGE", "TYPE_UNSIGNED32", "TYPE_COUNTER", "TYPE_TIMETICKS",
                 "TYPE_UINTEGER"} ->
         [type |-> CASE type \in {"TYPE_GAUGE", "TYPE_UNSIGNED32"} -> "ASN_GAUGE"
                     [] type = "TYPE_COUNTER" -> "ASN_COUNTER"
                     [] type = "TYPE_TIMETICKS" -> "ASN_TIMETICKS"
                     [] OTHER -> "ASN_UINTEGER",
          val |-> IF ~val.null THEN StoreScanned(val.str, 1, before) ELSE 0,
          val_len |-> SizeofLong,
          ret |-> IF ~val.null THEN SUCCESS ELSE FAILURE]
    [] type \in {"TYPE_OCTETSTR", "TYPE_BITSTRING", "TYPE_OPAQUE"} ->
         IF ~val.null /\ len # 0
         THEN [type |-> "ASN_OCTET_STR", val |-> SubSeq(val.str, 1, len), val_len |-> len,
               ret |-> SUCCESS]
         ELSE [type |-> "ASN_OCTET_STR", val |-> <<>>, val_len |-> 0, ret |-> FAILURE]
    [] OTHER ->
         [type |-> "ASN_NULL", val |-> <<>>, val_len |-> 0, ret |-> FAILURE]

\* __add_var_val_str(pdu, name, name_length, val, len, type): one varbind is
\* appended to the request in every branch
__add_var_val_str(p, oid, orig, val, len, type, before) ==
  LET vv == VarVal(val, len, type, before)
  IN [pdu |-> [p EXCEPT !.variables =
                      Append(@, [name |-> oid, type |-> vv.type, orig |-> orig,
                                 val |-> vv.val, val_len |-> vv.val_len])],
      ret |-> vv.ret]

\* lines 3016-3021: the value as copied into tmp_val_str, never a NULL
\* pointer
TmpValStr(val) == [null |-> FALSE, str |-> val.str]

\* lines 2986-2995: the type of a tuple whose specifier can be read: the one
\* __tag2oid took from the tree, the translated specifier when that is
\* unknown
TupleType(tree_type, type_str) ==
  IF tree_type = TYPE_UNKNOWN THEN __translate_appl_type(type_str) ELSE tree_type

\* lines 2970-3041: the loop of netsnmp_set from tuple k on, p the request
\* built so far, statuses what __add_var_val_str returned so far.  A tuple
\* is [oid_arr, type, type_str, val]: the path and the type __tag2oid left
\* (lines 2975, 719-721, 764-766), the snmp_type and value attributes
RECURSIVE SetLoop(_, _, _, _, _)
SetLoop(vl, k, p, statuses, before) ==
  IF k > Len(vl)
  THEN [exit |-> "send", pdu |-> p, statuses |-> statuses]
  ELSE IF Len(vl[k].oid_arr) = 0
  THEN [exit |-> "EasySNMPUnknownObjectIDError", pdu |-> NoPdu, statuses |-> statuses]
  ELSE IF vl[k].type = TYPE_UNKNOWN /\ vl[k].type_str.null
  THEN [exit |-> "no type", pdu |-> NoPdu, statuses |-> statuses]
  ELSE IF TupleType(vl[k].type, vl[k].type_str.str) = TYPE_UNKNOWN
  THEN [exit |-> "EasySNMPUndeterminedTypeError", pdu |-> NoPdu, statuses |-> statuses]
  ELSE IF vl[k].val.null
  THEN [exit |-> "no value", pdu |-> NoPdu, statuses |-> statuses]
  ELSE LET added == __add_var_val_str(p, vl[k].oid_arr, k, TmpValStr(vl[k].val),
                                       Len(vl[k].val.str),
                                       TupleType(vl[k].type, vl[k].type_str.str), before)
       IN SetLoop(vl, k + 1, added.pdu, Append(statuses, added.ret), before)

(***************************************************************************)
(* State.                                                                  *)
(***************************************************************************)
VARIABLES
  op,             \* the operation in progress
  pc,             \* position in the code
  ss,             \* session handle: "NULL" or "handle"
  retry_nosuch,   \* retry-with-elision flag handed to __send_sync_pdu
  invalid_oids,   \* the bit array handed to __send_sync_pdu
  pdu,            \* the outstanding request
  response,       \* *response
  status,         \* status of __send_sync_pdu
  err_str, err_num, err_ind,
  pyerr,          \* the Python exception set, "" when none
  retry_num, last_errindex,
  exchanges,      \* calls of snmp_sess_synch_response in this call
  batch_len,      \* entries of the request __send_sync_pdu was called with
  reported,       \* error indices of the no-such-name rounds retried
  marked,         \* bits handed to bitarray_set_bit, in order
  stripped,       \* orig of the entries removed by snmp_fix_pdu, in order
  transport,      \* the last answer of the transport
  varlist,        \* resolved starting paths of the batch
  varlist_ind, notdone, result_varlist, error, ret,
  rounds,         \* calls of __send_sync_pdu in this call
  rpc,            \* position of a call of the resolver
  tag, iid, best_guess,
  stale,          \* what the cells never written hold in this call
  scanned,        \* result of __scan_num_objid(tag, ...)
  text,           \* result of __sprint_num_objid on the scanned path
  oid_arr,        \* the path __tag2oid left, oid_arr_len its length
  load_error,     \* what snmp_op_data_load returns for the entry
  tpc,            \* position of a call of the type name functions
  val_type,       \* the type tag handed to __get_type_str
  val_type_str,   \* the name __get_type_str produced
  typestr,        \* the string handed to __translate_appl_type
  appl_type,      \* the tag __translate_appl_type returned
  fpc,            \* position in the formatting part of read_variable
  getlabel_flag,  \* flags handed to __get_label_iid
  sprintval_flag, \* flag handed to __snprint_value
  str_buf,        \* the name in data->str_buf, as a string
  label,          \* what __get_label_iid returned
  value,          \* the returned variable whose value is formatted
  val_len,        \* what __snprint_value returned
  copied,         \* bytes of str_buf written by __snprint_value
  terminator,     \* index of str_buf the terminator is written at
  session,        \* error_string, error_number, error_index of the session
  set_varlist,    \* the tuples netsnmp_set is called with
  add_status,     \* what __add_var_val_str returned, per tuple
  retry_no_such,  \* the retry_no_such attribute of the session of a write call
  oid_output_format,  \* NETSNMP_DS_LIB_OID_OUTPUT_FORMAT of the library
  sessions        \* per session: its flags, its context, its thread

vars == <<op, pc, ss, retry_nosuch, invalid_oids, pdu, response, status,
          err_str, err_num, err_ind, pyerr, retry_num, last_errindex,
          exchanges, batch_len, reported, marked, stripped, transport,
          varlist, varlist_ind, notdone, result_varlist, error, ret, rounds,
          rpc, tag, iid, best_guess, stale, scanned, text, oid_arr, load_error,
          tpc, val_type, val_type_str, typestr, appl_type,
          fpc, getlabel_flag, sprintval_flag, str_buf, label, value, val_len,
          copied, terminator,
          session, set_varlist, add_status, retry_no_such,
          oid_output_format, sessions>>

typeVars == <<tpc, val_type, val_type_str, typestr, appl_type>>

fmtVars == <<fpc, getlabel_flag, sprintval_flag, str_buf, label, value, val_len,
             copied, terminator>>

setVars == <<session, set_varlist, add_status, retry_no_such>>

thrVars == <<oid_output_format, sessions>>

auxVars == <<typeVars, fmtVars, setVars, thrVars>>

opVars == <<varlist, varlist_ind, notdone, result_varlist, error, ret, rounds>>

resVars == <<rpc, tag, iid, best_guess, stale, scanned, text, oid_arr, load_error>>

syncVars == <<op, pc, ss, retry_nosuch, invalid_oids, pdu, response, status,
              err_str, err_num, err_ind, pyerr, retry_num, last_errindex,
              exchanges, batch_len, reported, marked, stripped, transport>>

NoScan == [ret |-> FAILURE, objid |-> <<>>, len |-> 0]

\* no call of the resolver is in progress
ResolverIdle ==
  /\ rpc = "off"
  /\ tag = <<>>
  /\ iid = <<>>
  /\ best_guess = 0
  /\ stale = 0
  /\ scanned = NoScan
  /\ text = <<>>
  /\ oid_arr = <<>>
  /\ load_error = 0

\* no call of the type name functions is in progress
TypesIdle ==
  /\ tpc = "off"
  /\ val_type = ""
  /\ val_type_str = ""
  /\ typestr = <<>>
  /\ appl_type = ""

NoLabel == [ret |-> FAILURE, last_label |-> <<>>, iid |-> <<>>]

NoValue == [type |-> "ASN_NULL", val_len |-> 0]

\* no record is being formatted
FormatIdle ==
  /\ fpc = "off"
  /\ getlabel_flag = {}
  /\ sprintval_flag = 0
  /\ str_buf = <<>>
  /\ label = NoLabel
  /\ value = NoValue
  /\ val_len = 0
  /\ copied = 0
  /\ terminator = 0

\* the error attributes of a session no call has failed on
NoSessionError == [error_string |-> "", error_number |-> 0, error_index |-> 0]

\* no write call is in progress
SetIdle ==
  /\ session = NoSessionError
  /\ set_varlist = <<>>
  /\ add_status = <<>>
  /\ retry_no_such = NO_RETRY_NOSUCH

\* the sessions of the process are not modelled
ThreadsIdle ==
  /\ oid_output_format = "NETSNMP_OID_OUTPUT_SUFFIX"
  /\ sessions = <<>>

AuxIdle == TypesIdle /\ FormatIdle /\ SetIdle /\ ThreadsIdle

\* what is remembered of an answer: the status, whether a response came with
\* it, the response's error status and index, and the diagnostic text
NoTransport == [status |-> STAT_SUCCESS, null |-> TRUE, errstat |-> 0, errindex |-> 0,
                text |-> ""]

(***************************************************************************)
(* The transport: snmp_sess_synch_response and snmp_sess_error.            *)
(***************************************************************************)
\* diagnostics of snmp_sess_error: (s_errno, s_snmp_errno, text)
Diagnostics ==
  { [sys_errno |-> 0, snmp_errno |-> SNMPERR_TIMEOUT, text |-> "Timeout"],
    [sys_errno |-> 0, snmp_errno |-> SNMPERR_GENERR, text |-> "Generic error"] }

\* an error response repeats the variable bindings of the request
ErrorResponses(p) ==
  { Response(SNMP_ERR_NOSUCHNAME, i, p.variables) : i \in 1..(Len(p.variables) + 1) }
  \cup
  { Response(e, i, p.variables) : e \in OtherErrStats, i \in 0..Len(p.variables) }

\* the answer to a request of the orchestrator specification: its variables
\* with a value each
EchoResponse(p) ==
  Response(SNMP_ERR_NOERROR, 0,
           [k \in 1..Len(p.variables) |-> [p.variables[k] EXCEPT !.type = "ASN_OCTET_STR"]])

(***************************************************************************)
(* Object identifiers and responses seen by the fetch and walk calls.      *)
(***************************************************************************)
\* names of content variables an agent may return
Names == { <<1>>, <<1, 1>>, <<1, 1, 1>>, <<1, 2>> }

\* a returned variable with a value
ContentVars == [name : Names, type : {"ASN_OCTET_STR"}, orig : {1}]

\* a returned variable that carries an exception marker
MarkerVars ==
  [name : {<<1, 1>>}, type : {"SNMP_ENDOFMIBVIEW", "SNMP_NOSUCHOBJECT", "SNMP_NOSUCHINSTANCE"},
   orig : {1}]

SeqsUpTo(S, n) == UNION { [1..k -> S] : k \in 0..n }

\* the variable lists of the responses: any variables up to the first one
\* that is a marker or lies outside the subtree of start, then variables
\* inside the subtree (the ones a loop that read on would turn into records)
InSubtreeName(name, start) ==
  Len(name) >= Len(start) /\ \A j \in 1..Len(start) : name[j] = start[j]

VarLists(start) ==
  LET inside == { v \in ContentVars : InSubtreeName(v.name, start) }
      stops == (ContentVars \ inside) \cup MarkerVars
      filler == [name |-> start, type |-> "ASN_OCTET_STR", orig |-> 1]
  IN SeqsUpTo(inside, MaxVars)
     \cup
     { pre \o <<b>> \o [k \in 1..m |-> filler] :
         pre \in SeqsUpTo(inside, MaxVars - 1), b \in stops, m \in 0..(MaxVars - 1) }

\* responses without error status to a fetch or walk request of a batch
\* entry resolved to start
DataResponses(start) ==
  { Response(SNMP_ERR_NOERROR, 0, vs) : vs \in { l \in VarLists(start) : Len(l) <= MaxVars } }

\* a session handle whose peer is an agent over the finite tree Names that
\* answers as the protocol asks
TreeAgent == "handle of a tree agent"

\* the order of object identifiers: component by component, a proper prefix
\* first
RECURSIVE OidLess(_, _)
OidLess(a, b) ==
  IF b = <<>> THEN FALSE
  ELSE IF a = <<>> THEN TRUE
  ELSE IF Head(a) # Head(b) THEN Head(a) < Head(b)
  ELSE OidLess(Tail(a), Tail(b))

\* the answers of the tree agent to a request for one name: to a get the
\* object; to a get-next one object with a greater name; to a get-bulk up to
\* MaxVars objects with greater names in ascending order; to each of them
\* possibly the error status no-such-name, and nothing else when no object
\* has a greater name
TreeAnswers(p) ==
  LET asked == p.variables[1].name
      object(m) == [name |-> m, type |-> "ASN_OCTET_STR", orig |-> 1]
      greater == { object(m) : m \in { x \in Names : OidLess(asked, x) } }
      ascending == { l \in SeqsUpTo(greater, MaxVars) :
                       /\ Len(l) >= 1
                       /\ \A i \in 1..(Len(l) - 1) : OidLess(l[i].name, l[i + 1].name) }
      lists == CASE p.command = "GET" -> { <<object(asked)>> }
                 [] p.command = "GETNEXT" -> { l \in ascending : Len(l) = 1 }
                 [] OTHER -> ascending
  IN { [status |-> STAT_SUCCESS, response |-> r,
        diag |-> CHOOSE d0 \in Diagnostics : d0.text = "Generic error"] :
         r \in { Response(SNMP_ERR_NOERROR, 0, l) : l \in lists }
                \cup { Response(SNMP_ERR_NOSUCHNAME, 1, p.variables) } }

\* what snmp_sess_synch_response can answer to the outstanding request of a
\* session whose peer may answer anything
AnyAnswers(p) ==
  { [status |-> STAT_SUCCESS, response |-> r, diag |-> d] :
      r \in ErrorResponses(p)
            \cup (IF op \in {"sync", "set"}
                  THEN {EchoResponse(p)}
                  ELSE DataResponses(varlist[varlist_ind + 1].oid_arr)),
      d \in {CHOOSE d0 \in Diagnostics : d0.text = "Generic error"} }
  \cup
  { [status |-> st, response |-> NoResponse, diag |-> d] :
      st \in {STAT_SUCCESS, STAT_ERROR, STAT_TIMEOUT}, d \in Diagnostics }

\* what snmp_sess_synch_response can answer to the outstanding request
TransportAnswers(p) == IF ss = TreeAgent THEN TreeAnswers(p) ELSE AnyAnswers(p)

\* the number of exchanges the model follows a call for when the peer may
\* answer anything
ExchangeCap == IF op = "sync" THEN MaxBatch + ExtraExchanges ELSE MaxRounds

\* with the tree agent a call is followed for as long as it runs.  No walk
\* over ascending names makes TreeCap rounds or returns TreeCap records:
\* the counters of the model stop counting there, and of a longer result
\* list the model keeps the last TreeCap records
TreeCap == Cardinality(Names) + MaxRounds

Counted(n) == IF ss = TreeAgent /\ n >= TreeCap THEN n ELSE n + 1

Kept(records) ==
  IF ss = TreeAgent /\ Len(records) > TreeCap
  THEN SubSeq(records, Len(records) - TreeCap + 1, Len(records))
  ELSE records

(***************************************************************************)
(* __send_sync_pdu.                                                        *)
(***************************************************************************)
\* where __send_sync_pdu returns to
ReturnPc == IF op = "sync" THEN "returned" ELSE "inspect"

\* lines 1001-1021: the call up to the retry label
SyncEnter ==
  /\ pc = "send"
  /\ IF pdu.null
     THEN \* line 1002 reads pdu->command through a null pointer
          /\ pc' = "crashed"
          /\ UNCHANGED <<status, err_str, err_num, err_ind, response,
                         retry_num, last_errindex, batch_len,
                         reported, marked, stripped, transport>>
     ELSE /\ retry_num' = 0
          /\ last_errindex' = 0
          /\ err_num' = 0
          /\ response' = NoResponse
          /\ batch_len' = Len(pdu.variables)
          /\ reported' = <<>>
          /\ marked' = <<>>
          /\ stripped' = <<>>
          /\ transport' = NoTransport
          /\ IF SessionAbsent(ss)
             THEN /\ err_ind' = SNMPERR_BAD_SESSION
                  /\ status' = SNMPERR_BAD_SESSION
                  /\ err_str' = snmp_errstring(SNMPERR_BAD_SESSION)
                  /\ pc' = ReturnPc
             ELSE /\ err_ind' = 0
                  /\ status' = 0
                  /\ err_str' = ""
                  /\ pc' = "retry"
  /\ rounds' = Counted(rounds)
  /\ UNCHANGED <<op, ss, retry_nosuch, invalid_oids, pdu, pyerr, exchanges>>
  /\ UNCHANGED <<varlist, varlist_ind, notdone, result_varlist, error, ret>>
  /\ UNCHANGED resVars
  /\ UNCHANGED auxVars

\* lines 1023-1167: one exchange and the classification of its outcome
Exchange ==
  /\ pc = "retry"
  /\ ss = TreeAgent \/ exchanges < ExchangeCap
  /\ \E ans \in TransportAnswers(pdu) :
       LET st == FixStatus(ans.status, ans.response, err_str)
           resp == ans.response
           bit == ErrIndexBit(last_errindex, resp.errindex, retry_num)
           fixed == snmp_fix_pdu(resp, pdu.command)
       IN
       /\ exchanges' = Counted(exchanges)
       /\ transport' = [status |-> ans.status, null |-> resp.null, errstat |-> resp.errstat,
                        errindex |-> resp.errindex, text |-> ans.diag.text]
       /\ response' = resp
       /\ IF st = STAT_SUCCESS
          THEN IF resp.errstat = SNMP_ERR_NOERROR
               THEN /\ status' = resp.errstat
                    /\ pc' = ReturnPc
                    /\ UNCHANGED <<pdu, invalid_oids, err_str, err_num, err_ind, pyerr,
                                   retry_num, last_errindex, reported, marked, stripped>>
               ELSE IF resp.errstat = SNMP_ERR_NOSUCHNAME
               THEN IF RetryApplies(retry_nosuch)
                    THEN /\ marked' = Append(marked, bit)
                         /\ reported' = Append(reported, resp.errindex)
                         /\ UNCHANGED <<err_str, err_num, err_ind, pyerr>>
                         /\ \E ub \in NullWriteOutcomes(invalid_oids) :
                              IF ub = "crash"
                              THEN /\ pc' = "crashed"
                                   /\ status' = resp.errstat
                                   /\ UNCHANGED <<pdu, invalid_oids, retry_num,
                                                  last_errindex, stripped>>
                              ELSE /\ invalid_oids' = IF ub = "set"
                                                      THEN bitarray_set_bit(invalid_oids, bit)
                                                      ELSE invalid_oids
                                   /\ last_errindex' = resp.errindex
                                   /\ stripped' = IF resp.errindex \in 1..Len(resp.variables)
                                                  THEN Append(stripped, resp.variables[resp.errindex].orig)
                                                  ELSE stripped
                                   /\ IF fixed.null
                                      THEN /\ status' = STAT_SUCCESS
                                           /\ pdu' = NoPdu
                                           /\ pc' = ReturnPc
                                           /\ UNCHANGED retry_num
                                      ELSE /\ status' = resp.errstat
                                           /\ pdu' = ResubmitPdu(fixed, pdu)
                                           /\ retry_num' = retry_num + 1
                                           /\ pc' = "retry"
                    ELSE /\ pyerr' = "EasySNMPNoSuchNameError"
                         /\ status' = resp.errstat
                         /\ pc' = ReturnPc
                         /\ UNCHANGED <<pdu, invalid_oids, err_str, err_num, err_ind,
                                        retry_num, last_errindex, reported, marked, stripped>>
               ELSE /\ err_str' = snmp_errstring(resp.errstat)
                    /\ err_num' = RemoteErrNum(resp)
                    /\ err_ind' = RemoteErrInd(resp)
                    /\ pyerr' = "EasySNMPError"
                    /\ status' = resp.errstat
                    /\ pc' = ReturnPc
                    /\ UNCHANGED <<pdu, invalid_oids, retry_num, last_errindex,
                                   reported, marked, stripped>>
          ELSE /\ err_num' = ans.diag.sys_errno
               /\ err_ind' = ans.diag.snmp_errno
               /\ err_str' = ans.diag.text
               /\ pyerr' = IF st = STAT_TIMEOUT THEN "EasySNMPTimeoutError" ELSE "EasySNMPError"
               /\ status' = st
               /\ pc' = ReturnPc
               /\ UNCHANGED <<pdu, invalid_oids, retry_num, last_errindex,
                              reported, marked, stripped>>
  /\ UNCHANGED <<op, ss, retry_nosuch, batch_len>>
  /\ UNCHANGED opVars
  /\ UNCHANGED resVars
  /\ UNCHANGED auxVars

(***************************************************************************)
(* The orchestrator on its own: __send_sync_pdu called with a request of   *)
(* 1..MaxBatch entries.                                                    *)
(***************************************************************************)
BatchPdu(n) ==
  Pdu("GET", [k \in 1..n |-> [name |-> <<1, k>>, type |-> "ASN_NULL", orig |-> k]])

InitSync ==
  /\ op = "sync"
  /\ pc = "send"
  /\ ss \in {"NULL", "handle"}
  /\ retry_nosuch \in {NO_RETRY_NOSUCH, 1}
  /\ invalid_oids \in {NoBitarray, EmptyBitarray}
  /\ pdu \in { BatchPdu(n) : n \in 1..MaxBatch }
  /\ response = NoResponse
  /\ status = 0
  /\ err_str = ""
  /\ err_num = 0
  /\ err_ind = 0
  /\ pyerr = ""
  /\ retry_num = 0
  /\ last_errindex = 0
  /\ exchanges = 0
  /\ batch_len = 0
  /\ reported = <<>>
  /\ marked = <<>>
  /\ stripped = <<>>
  /\ transport = NoTransport
  /\ varlist = <<>>
  /\ varlist_ind = 0
  /\ notdone = 0
  /\ result_varlist = <<>>
  /\ error = 0
  /\ ret = "pending"
  /\ rounds = 0
  /\ ResolverIdle
  /\ AuxIdle

NextSync == SyncEnter \/ Exchange

SpecSync == InitSync /\ [][NextSync]_vars

(***************************************************************************)
(* The fetch and walk entry points: netsnmp_get, netsnmp_getnext,          *)
(* netsnmp_getbulk, netsnmp_walk, netsnmp_bulkwalk.                        *)
(***************************************************************************)
Ops == {"get", "getnext", "getbulk", "walk", "bulkwalk"}

\* snmp_pdu_create(...) of each entry point
Command(o) ==
  CASE o = "get" -> "GET"
    [] o \in {"getnext", "walk"} -> "GETNEXT"
    [] o \in {"getbulk", "bulkwalk"} -> "GETBULK"
    [] OTHER -> ""

\* a plausible slip: every entry point goes on from the returned name
IsWalk_all(o) == TRUE

\* the entry points that build the next request from a returned name
IsWalk(o) == o \in {"walk", "bulkwalk"}

\* batch entries after snmp_op_data_load: the tag as given and the path
\* __tag2oid resolved it to (length 0 when it does not resolve)
VarlistEntries ==
  { [tag |-> "t11", oid_arr |-> <<1, 1>>],
    [tag |-> "t12", oid_arr |-> <<1, 2>>],
    [tag |-> "unknown", oid_arr |-> <<>>] }

__translate_asn_type(type) ==
  CASE type = "ASN_INTEGER" -> "TYPE_INTEGER"
    [] type = "ASN_OCTET_STR" -> "TYPE_OCTETSTR"
    [] type = "ASN_OPAQUE" -> "TYPE_OPAQUE"
    [] type = "ASN_OBJECT_ID" -> "TYPE_OBJID"
    [] type = "ASN_TIMETICKS" -> "TYPE_TIMETICKS"
    [] type = "ASN_GAUGE" -> "TYPE_GAUGE"
    [] type = "ASN_COUNTER" -> "TYPE_COUNTER"
    [] type = "ASN_IPADDRESS" -> "TYPE_IPADDR"
    [] type = "ASN_BIT_STR" -> "TYPE_BITSTRING"
    [] type = "ASN_NULL" -> "TYPE_NULL"
    [] type \in {"SNMP_ENDOFMIBVIEW", "SNMP_NOSUCHOBJECT", "SNMP_NOSUCHINSTANCE"} -> type
    [] type = "ASN_UINTEGER" -> "TYPE_UINTEGER"
    [] type = "ASN_COUNTER64" -> "TYPE_COUNTER64"
    [] OTHER -> "TYPE_OTHER"

\* the name __get_type_str copies into str, "" for the types it does not name
__get_type_str(type) ==
  CASE type = "TYPE_OBJID" -> "OBJECTID"
    [] type = "TYPE_OCTETSTR" -> "OCTETSTR"
    [] type = "TYPE_INTEGER" -> "INTEGER"
    [] type = "TYPE_INTEGER32" -> "INTEGER32"
    [] type = "TYPE_UNSIGNED32" -> "UNSIGNED32"
    [] type = "TYPE_NETADDR" -> "NETADDR"
    [] type = "TYPE_IPADDR" -> "IPADDR"
    [] type = "TYPE_COUNTER" -> "COUNTER"
    [] type = "TYPE_GAUGE" -> "GAUGE"
    [] type = "TYPE_TIMETICKS" -> "TICKS"
    [] type = "TYPE_OPAQUE" -> "OPAQUE"
    [] type = "TYPE_COUNTER64" -> "COUNTER64"
    [] type = "TYPE_NULL" -> "NULL"
    [] type = "SNMP_ENDOFMIBVIEW" -> "ENDOFMIBVIEW"
    [] type = "SNMP_NOSUCHOBJECT" -> "NOSUCHOBJECT"
    [] type = "SNMP_NOSUCHINSTANCE" -> "NOSUCHINSTANCE"
    [] type = "TYPE_UINTEGER" -> "UINTEGER"
    [] type = "TYPE_NOTIFTYPE" -> "NOTIF"
    [] type = "TYPE_BITSTRING" -> "BITS"
    [] type = "TYPE_TRAPTYPE" -> "TRAP"
    [] OTHER -> ""

\* what __get_type_str returns: FAILURE for TYPE_OTHER, TYPE_NSAPADDRESS and
\* the types the switch does not name
GetTypeStrStatus(type) == IF __get_type_str(type) = "" THEN FAILURE ELSE SUCCESS

\* the batches the entry points are called with
Varlists ==
  LET a == CHOOSE e \in VarlistEntries : e.tag = "t11"
      b == CHOOSE e \in VarlistEntries : e.tag = "t12"
      u == CHOOSE e \in VarlistEntries : e.tag = "unknown"
  IN { <<>>, <<a>>, <<b>>, <<a, b>>, <<b, a>>, <<u>>, <<a, u>> }

\* a plausible slip: the root path is taken from the returned variable
read_variable_returned_root(v, initial_oid) ==
  [root_oid |-> v.name, oid |-> v.name,
   snmp_type |-> __get_type_str(__translate_asn_type(v.type)),
   placeholder |-> FALSE]

\* the record read_variable builds for a returned variable
read_variable(v, initial_oid) ==
  [root_oid |-> initial_oid, oid |-> v.name,
   snmp_type |-> __get_type_str(__translate_asn_type(v.type)),
   placeholder |-> FALSE]

\* the record built for a no-such-object / no-such-instance variable: the
\* attributes root_oid and oid both repeat initial_oid, snmp_type is the
\* marker; nothing of the returned variable is read and no value is set
PlaceholderRecord(v, initial_oid) ==
  [root_oid |-> initial_oid, oid |-> <<>>,
   snmp_type |-> __get_type_str(v.type), placeholder |-> TRUE]

Min(a, b) == IF a < b THEN a ELSE b

\* a plausible slip: the end-of-view marker is not tested
IsEndOfMibView_never(v) == FALSE

\* vars->type == SNMP_ENDOFMIBVIEW
IsEndOfMibView(v) == v.type = "SNMP_ENDOFMIBVIEW"

\* a plausible slip: only the no-such-object marker is tested
IsNoSuch_object_only(v) == v.type = "SNMP_NOSUCHOBJECT"

\* vars->type == SNMP_NOSUCHOBJECT || vars->type == SNMP_NOSUCHINSTANCE
IsNoSuch(v) == v.type \in {"SNMP_NOSUCHOBJECT", "SNMP_NOSUCHINSTANCE"}

\* a plausible slip: the length of the returned name is not checked and the
\* comparison covers the part both names have
OutOfSubtree_no_length(name, start) ==
  SubSeq(name, 1, Min(Len(name), Len(start))) # SubSeq(start, 1, Min(Len(name), Len(start)))

\* a plausible slip: only the length of the returned name is checked
OutOfSubtree_length_only(name, start) == Len(name) < Len(start)

\* the name_length test and the memcmp of the subtree check
OutOfSubtree(name, start) ==
  \/ Len(name) < Len(start)
  \/ SubSeq(name, 1, Len(start)) # start

\* a plausible slip: the next request starts from the first returned name
NextFrontier_first(vs, k) == vs[1].name

\* the name the next request is built from, at the variable whose
\* next_variable is NULL
NextFrontier(vs, k) == vs[k].name

\* the loop over response->variables: the records appended, notdone after
\* the loop, and the request created for the next round
RECURSIVE InspectVars(_, _, _, _, _)
InspectVars(o, vs, k, start, initial_oid) ==
  IF k > Len(vs)
  THEN [emitted |-> <<>>, notdone |-> 1, next |-> NoPdu]
  ELSE IF IsEndOfMibView(vs[k])
  THEN [emitted |-> <<>>, notdone |-> 0, next |-> NoPdu]
  ELSE IF IsNoSuch(vs[k])
  THEN [emitted |-> <<PlaceholderRecord(vs[k], initial_oid)>>, notdone |-> 0, next |-> NoPdu]
  ELSE IF OutOfSubtree(vs[k].name, start)
  THEN [emitted |-> <<>>, notdone |-> 0, next |-> NoPdu]
  ELSE LET rest == InspectVars(o, vs, k + 1, start, initial_oid)
       IN [emitted |-> <<read_variable(vs[k], initial_oid)>> \o rest.emitted,
           notdone |-> rest.notdone,
           next |-> IF IsWalk(o) /\ k = Len(vs)
                    THEN snmp_add_null_var(Pdu(Command(o), <<>>), NextFrontier(vs, k), 1)
                    ELSE rest.next]

\* a plausible slip: the outcome of the request is not tested
RequestFailed_never(st, err) == FALSE

\* (status != STAT_SUCCESS) || PyErr_Occurred() after send_pdu_request
RequestFailed(st, err) == st # STAT_SUCCESS \/ err # ""

\* a plausible slip: the loop over the batch ends with the first entry
MoreEntries_first_only(ind, len) == ind < len /\ ind = 0

\* while (varlist_ind < varlist_len)
MoreEntries(ind, len) == ind < len

\* a plausible slip: only the first entry of the batch is tested
snmp_op_data_load_first_only(vl) ==
  IF Len(vl) > 0 /\ Len(vl[1].oid_arr) = 0 THEN 1 ELSE 0

\* snmp_op_data_load: every entry of the batch is resolved before any
\* request is built; the first entry whose resolved path has length 0 ends
\* the load with the unknown-object-id exception and error 1
snmp_op_data_load(vl) ==
  IF \E i \in 1..Len(vl) : Len(vl[i].oid_arr) = 0 THEN 1 ELSE 0

\* the request built at the head of the loop over the batch
FirstRequest(o, entry) == snmp_add_null_var(Pdu(Command(o), <<>>), entry.oid_arr, 1)

\* a plausible slip: the error attributes are written at every return
UpdatesSessionErrors_always(err) == TRUE

\* lines 2066-2071: if (error) at the label done of a fetch or walk call
UpdatesSessionErrors(err) == err # 0

\* the error attributes of the session after the label done
SessionAtDone(err, es, en, ei) ==
  IF UpdatesSessionErrors(err)
  THEN [error_string |-> es, error_number |-> en, error_index |-> ei]
  ELSE session

\* an entry point is called: get_session_context, which copies the error
\* attributes of the session to the context (lines 1378-1384), then
\* snmp_op_data_load, then the first request.  A failed load leaves through
\* the label exception, a call with an empty batch through done
Call ==
  /\ pc = "idle"
  /\ err_str' = session.error_string
  /\ err_num' = session.error_number
  /\ err_ind' = session.error_index
  /\ \E o \in Ops, vl \in Varlists :
       /\ op' = o
       /\ varlist' = vl
       /\ varlist_ind' = 0
       /\ result_varlist' = <<>>
       /\ IF snmp_op_data_load(vl) # 0
          THEN /\ pyerr' = "EasySNMPUnknownObjectIDError"
               /\ ret' = "NULL"
               /\ pc' = "returned"
               /\ UNCHANGED <<pdu, notdone, session>>
          ELSE IF ~MoreEntries(0, Len(vl))
          THEN /\ ret' = "list"
               /\ pc' = "returned"
               /\ session' = SessionAtDone(error, err_str', err_num', err_ind')
               /\ UNCHANGED <<pdu, notdone, pyerr>>
          ELSE /\ pdu' = FirstRequest(o, vl[1])
               /\ notdone' = 1
               /\ pc' = "send"
               /\ UNCHANGED <<ret, pyerr, session>>
  /\ UNCHANGED <<ss, retry_nosuch, invalid_oids, response, status,
                 retry_num, last_errindex, exchanges, batch_len, reported,
                 marked, stripped, transport, error, rounds>>
  /\ UNCHANGED resVars
  /\ UNCHANGED <<typeVars, fmtVars, thrVars, set_varlist, add_status, retry_no_such>>

\* after send_pdu_request returns: the failure exits (the label exception
\* when an exception is raised, else error 1 and the label done), or the
\* loop over the response and the step to the next request, the label done
\* after the last entry
Inspect ==
  /\ pc = "inspect"
  /\ IF RequestFailed(status, pyerr)
     THEN /\ error' = IF pyerr # "" THEN error ELSE 1
          /\ session' = IF pyerr # ""
                        THEN session
                        ELSE SessionAtDone(1, err_str, err_num, err_ind)
          /\ ret' = "NULL"
          /\ pc' = "returned"
          /\ pdu' = NoPdu
          /\ response' = NoResponse
          /\ transport' = transport
          /\ UNCHANGED <<varlist_ind, notdone, result_varlist>>
     ELSE LET entry == varlist[varlist_ind + 1]
              r == InspectVars(op, response.variables, 1, entry.oid_arr, entry.tag)
              nd == IF IsWalk(op) THEN r.notdone ELSE 0
          IN /\ result_varlist' = Kept(result_varlist \o r.emitted)
             /\ response' = NoResponse
             /\ transport' = NoTransport
             /\ error' = error
             /\ IF nd = 1
                THEN /\ notdone' = 1
                     /\ pdu' = r.next
                     /\ pc' = "send"
                     /\ UNCHANGED <<varlist_ind, ret, session>>
                ELSE /\ varlist_ind' = varlist_ind + 1
                     /\ IF MoreEntries(varlist_ind + 1, Len(varlist))
                        THEN /\ pdu' = FirstRequest(op, varlist[varlist_ind + 2])
                             /\ notdone' = 1
                             /\ pc' = "send"
                             /\ ret' = ret
                             /\ session' = session
                        ELSE /\ pdu' = NoPdu
                             /\ notdone' = 0
                             /\ ret' = "list"
                             /\ pc' = "returned"
                             /\ session' = SessionAtDone(error, err_str, err_num, err_ind)
  /\ UNCHANGED <<op, ss, retry_nosuch, invalid_oids, status, err_str, err_num, err_ind,
                 pyerr, retry_num, last_errindex, exchanges, batch_len, reported,
                 marked, stripped, varlist, rounds>>
  /\ UNCHANGED resVars
  /\ UNCHANGED <<typeVars, fmtVars, thrVars, set_varlist, add_status, retry_no_such>>

\* a session exists; no call has been made.  send_pdu_request hands no bit
\* array to __send_sync_pdu
Init ==
  /\ op = "none"
  /\ pc = "idle"
  /\ ss \in {"NULL", "handle"}
  /\ retry_nosuch \in {NO_RETRY_NOSUCH, 1}
  /\ invalid_oids = NoBitarray
  /\ pdu = NoPdu
  /\ response = NoResponse
  /\ status = 0
  /\ err_str = ""
  /\ err_num = 0
  /\ err_ind = 0
  /\ pyerr = ""
  /\ retry_num = 0
  /\ last_errindex = 0
  /\ exchanges = 0
  /\ batch_len = 0
  /\ reported = <<>>
  /\ marked = <<>>
  /\ stripped = <<>>
  /\ transport = NoTransport
  /\ varlist = <<>>
  /\ varlist_ind = 0
  /\ notdone = 0
  /\ result_varlist = <<>>
  /\ error = 0
  /\ ret = "pending"
  /\ rounds = 0
  /\ ResolverIdle
  /\ AuxIdle

Next == Call \/ SyncEnter \/ Exchange \/ Inspect

Spec == Init /\ [][Next]_vars

(***************************************************************************)
(* The resolver on its own: the literal parser and formatter, and          *)
(* __tag2oid as snmp_op_data_load calls it for one batch entry.            *)
(***************************************************************************)
\* __scan_num_objid(tag, newname, &newname_len)
ScanTag ==
  /\ rpc = "start"
  /\ scanned' = __scan_num_objid(tag, stale)
  /\ rpc' = "scanned"
  /\ UNCHANGED <<tag, iid, best_guess, stale, text, oid_arr, load_error>>
  /\ UNCHANGED syncVars
  /\ UNCHANGED opVars
  /\ UNCHANGED auxVars

\* __sprint_num_objid(buf, objid, len) on the path scanned
SprintPath ==
  /\ rpc = "scanned"
  /\ scanned.ret = SUCCESS
  /\ text' = __sprint_num_objid(scanned.objid, scanned.len)
  /\ rpc' = "printed"
  /\ UNCHANGED <<tag, iid, best_guess, stale, scanned, oid_arr, load_error>>
  /\ UNCHANGED syncVars
  /\ UNCHANGED opVars
  /\ UNCHANGED auxVars

\* lines 1491-1520: one turn of the loop of snmp_op_data_load
ResolveTag ==
  /\ rpc = "start"
  /\ \E i \in Strings(MaxIidLen), g \in 0..2 :
       LET path == __tag2oid(tag, i, g, stale)
       IN /\ iid' = i
          /\ best_guess' = g
          /\ oid_arr' = path
          /\ load_error' = snmp_op_data_load(<<[tag |-> tag, oid_arr |-> path]>>)
  /\ rpc' = "resolved"
  /\ UNCHANGED <<tag, stale, scanned, text>>
  /\ UNCHANGED syncVars
  /\ UNCHANGED opVars
  /\ UNCHANGED auxVars

InitResolve ==
  /\ op = "none"
  /\ pc = "off"
  /\ ss = "handle"
  /\ retry_nosuch = NO_RETRY_NOSUCH
  /\ invalid_oids = NoBitarray
  /\ pdu = NoPdu
  /\ response = NoResponse
  /\ status = 0
  /\ err_str = ""
  /\ err_num = 0
  /\ err_ind = 0
  /\ pyerr = ""
  /\ retry_num = 0
  /\ last_errindex = 0
  /\ exchanges = 0
  /\ batch_len = 0
  /\ reported = <<>>
  /\ marked = <<>>
  /\ stripped = <<>>
  /\ transport = NoTransport
  /\ varlist = <<>>
  /\ varlist_ind = 0
  /\ notdone = 0
  /\ result_varlist = <<>>
  /\ error = 0
  /\ ret = "pending"
  /\ rounds = 0
  /\ rpc = "start"
  /\ tag \in Strings(MaxTagLen)
  /\ stale \in StaleWords
  /\ iid = <<>>
  /\ best_guess = 0
  /\ scanned = NoScan
  /\ text = <<>>
  /\ oid_arr = <<>>
  /\ load_error = 0
  /\ AuxIdle

NextResolve == ScanTag \/ SprintPath \/ ResolveTag

SpecResolve == InitResolve /\ [][NextResolve]_vars

(***************************************************************************)
(* Properties of the orchestrator, checked under SpecSync.                 *)
(***************************************************************************)
\* the error indices reported so far are n, n-1, ...
Descending(n, s) == \A k \in 1..Len(s) : s[k] = n - k + 1

\* the error indices reported so far are all 1
AllOnes(s) == \A k \in 1..Len(s) : s[k] = 1

\* every exchange so far was a no-such-name answer that was retried, on a
\* bit array that exists
OnlyElisionRounds ==
  /\ pc # "send"
  /\ ss = "handle"
  /\ retry_nosuch # NO_RETRY_NOSUCH
  /\ ~invalid_oids.null
  /\ Len(reported) = exchanges

\* C1: retry opted in, a batch of N entries, the agent answers no-such-name
\* with error indices N, N-1, ..., 1: every round marks the bit of the
\* reported index, which is the original index of the entry stripped and was
\* not marked before; after N exchanges the call has returned success with
\* no entry outstanding, and not before.
C1_DescendingElision ==
  (OnlyElisionRounds /\ Descending(batch_len, reported))
  => /\ Len(marked) = exchanges
     /\ Len(stripped) = exchanges
     /\ \A k \in 1..exchanges : marked[k] = reported[k] - 1 /\ stripped[k] = reported[k]
     /\ invalid_oids.bits = { reported[k] - 1 : k \in 1..exchanges }
     /\ Cardinality(invalid_oids.bits) = exchanges
     /\ IF exchanges < batch_len
        THEN pc = "retry" /\ Len(pdu.variables) = batch_len - exchanges
        ELSE pc = "returned" /\ status = STAT_SUCCESS /\ pdu.null /\ exchanges = batch_len

W_C1_DescendingElision ==
  /\ OnlyElisionRounds
  /\ pc = "returned"
  /\ batch_len = 5
  /\ reported = <<5, 4, 3, 2, 1>>
  /\ invalid_oids.bits = 0..4
  /\ status = STAT_SUCCESS

\* C2: retry opted in, the agent always reports error index 1 relative to
\* the shrinking request: round k marks bit k-1, the bit of original entry k,
\* which is the entry stripped in that round; no bit is marked twice.
C2_AscendingElision ==
  (OnlyElisionRounds /\ AllOnes(reported))
  => /\ Len(marked) = exchanges
     /\ Len(stripped) = exchanges
     /\ \A k \in 1..exchanges : marked[k] = k - 1 /\ stripped[k] = k
     /\ invalid_oids.bits = 0..(exchanges - 1)
     /\ Cardinality(invalid_oids.bits) = exchanges

W_C2_AscendingElision ==
  /\ OnlyElisionRounds
  /\ pc = "returned"
  /\ batch_len = 5
  /\ reported = <<1, 1, 1, 1, 1>>
  /\ marked = <<0, 1, 2, 3, 4>>

\* C3: a call with a batch of N entries performs at most N exchanges: the
\* call is about to exchange again only after a no-such-name answer with
\* retry opted in, and the outstanding request then has one entry less per
\* exchange made.
C3_ElisionTerminates ==
  pc # "send"
  => /\ exchanges <= batch_len
     /\ (pc = "retry"
         => /\ Len(pdu.variables) = batch_len - exchanges
            /\ (exchanges > 0
                => /\ retry_nosuch # NO_RETRY_NOSUCH
                   /\ transport.status = STAT_SUCCESS
                   /\ ~transport.null
                   /\ transport.errstat = SNMP_ERR_NOSUCHNAME))

W_C3_ElisionTerminates ==
  /\ pc = "returned"
  /\ batch_len >= 3
  /\ exchanges = batch_len
  /\ Len(reported) = batch_len

\* C5: a no-such-name answer without retry opted in ends the call after that
\* one exchange with the no-such-name exception and a status that is not
\* success; nothing is marked or stripped.
C5_NoSuchNameWithoutRetry ==
  (/\ pc # "send"
   /\ retry_nosuch = NO_RETRY_NOSUCH
   /\ exchanges > 0
   /\ transport.status = STAT_SUCCESS
   /\ ~transport.null
   /\ transport.errstat = SNMP_ERR_NOSUCHNAME)
  => /\ pc = "returned"
     /\ exchanges = 1
     /\ pyerr = "EasySNMPNoSuchNameError"
     /\ status # STAT_SUCCESS
     /\ marked = <<>>
     /\ retry_num = 0
     /\ Len(pdu.variables) = batch_len

W_C5_NoSuchNameWithoutRetry ==
  /\ pc = "returned"
  /\ retry_nosuch = NO_RETRY_NOSUCH
  /\ batch_len = 3
  /\ exchanges = 1
  /\ ~transport.null
  /\ transport.errstat = SNMP_ERR_NOSUCHNAME
  /\ pyerr = "EasySNMPNoSuchNameError"

C7_TimeoutOnlyWithMarker ==
  (pc = "returned" /\ exchanges > 0 /\ transport.status = STAT_ERROR)
  => /\ (pyerr = "EasySNMPTimeoutError" => transport.text = "Timeout")
     /\ (transport.text # "Timeout" => pyerr = "EasySNMPError")

(***************************************************************************)
(* Properties of the fetch and walk entry points, checked under Spec.      *)
(***************************************************************************)
\* C4: with retry opted in, a single-entry get whose only entry the agent
\* rejects with no-such-name returns successfully with zero records.
C4_LastEntryElidedNoRecords ==
  (/\ op = "get"
   /\ Len(varlist) = 1
   /\ retry_nosuch # NO_RETRY_NOSUCH
   /\ reported # <<>>
   /\ pc \in {"returned", "crashed"})
  => /\ pc = "returned"
     /\ ret = "list"
     /\ result_varlist = <<>>

ExitsAt(vs, k, start) ==
  /\ vs[k].type \in {"ASN_OCTET_STR", "ASN_NULL"}
  /\ ~InSubtreeName(vs[k].name, start)
  /\ \A j \in 1..(k - 1) :
       vs[j].type \in {"ASN_OCTET_STR", "ASN_NULL"} /\ InSubtreeName(vs[j].name, start)

C9_Step ==
  (pc = "inspect" /\ IsWalk(op) /\ status = STAT_SUCCESS /\ pyerr = "")
  => \A k \in 1..Len(response.variables) :
       ExitsAt(response.variables, k, varlist[varlist_ind + 1].oid_arr)
       => /\ result_varlist' = result_varlist \o
               [j \in 1..(k - 1) |-> [root_oid |-> varlist[varlist_ind + 1].tag,
                                      oid |-> response.variables[j].name,
                                      snmp_type |-> "OCTETSTR",
                                      placeholder |-> FALSE]]
          /\ varlist_ind' = varlist_ind + 1
          /\ pc' \in {"send", "returned"}
          /\ (pc' = "send"
              => /\ varlist_ind' < Len(varlist)
                 /\ pdu'.variables[1].name = varlist[varlist_ind' + 1].oid_arr)
          /\ (pc' = "returned" => varlist_ind' = Len(varlist) /\ ret' = "list")
          /\ (op = "walk" /\ Len(varlist) = 1 /\ rounds = 1 /\ k = 1
              => pc' = "returned" /\ result_varlist' = <<>> /\ exchanges' = 1)

C10_Step ==
  /\ (pc' = "send" /\ pc # "send" /\ IsWalk(op'))
     => IF pc = "inspect" /\ varlist_ind' = varlist_ind
        THEN Len(response.variables) > 0
             => pdu' = [null |-> FALSE,
                        command |-> IF op = "walk" THEN "GETNEXT" ELSE "GETBULK",
                        variables |-> <<[name |-> response.variables[Len(response.variables)].name,
                                         type |-> "ASN_NULL", orig |-> 1]>>]
        ELSE pdu' = [null |-> FALSE,
                     command |-> IF op' = "walk" THEN "GETNEXT" ELSE "GETBULK",
                     variables |-> <<[name |-> varlist'[varlist_ind' + 1].oid_arr,
                                      type |-> "ASN_NULL", orig |-> 1]>>]
  /\ (pc' = "inspect" /\ op = "walk" /\ ss = "handle") => exchanges' = rounds'

\* C10: in walk and bulk walk the first request for a batch entry names the
\* resolved starting path, and every later request for it names the last
\* variable of the response just read; each request has one entry, a
\* next-object request in walk, and a walk makes one exchange per request.
C10_FrontierChaining == [][C10_Step]_vars

W_C10_FrontierChaining ==
  /\ op = "bulkwalk"
  /\ pc = "send"
  /\ rounds = 1
  /\ varlist_ind = 0
  /\ Len(result_varlist) = 2
  /\ result_varlist[1].oid = <<1, 1>>
  /\ result_varlist[2].oid = <<1, 1, 1>>
  /\ pdu.variables[1].name = <<1, 1, 1>>

(***************************************************************************)
(* Properties of the loop over a response and of the loop over the batch,  *)
(* checked under Spec.                                                     *)
(***************************************************************************)
\* the record of a returned variable that carries a value
ValueRecord(root, name) ==
  [root_oid |-> root, oid |-> name, snmp_type |-> "OCTETSTR", placeholder |-> FALSE]

\* the record that stands for a no-such-object / no-such-instance variable
MarkerRecord(root, type) ==
  [root_oid |-> root, oid |-> <<>>,
   snmp_type |-> IF type = "SNMP_NOSUCHOBJECT" THEN "NOSUCHOBJECT" ELSE "NOSUCHINSTANCE",
   placeholder |-> TRUE]

\* an entry point is about to read the response of a request that succeeded
ReadsResponse ==
  pc = "inspect" /\ op \in Ops /\ status = STAT_SUCCESS /\ pyerr = ""

\* the variables before position k carry values and lie inside the subtree
ValuesInside(vs, k, start) ==
  \A j \in 1..(k - 1) : vs[j].type = "ASN_OCTET_STR" /\ InSubtreeName(vs[j].name, start)

\* the records of the variables before position k
RecordsBefore(vs, k, root) == [j \in 1..(k - 1) |-> ValueRecord(root, vs[j].name)]

\* the step leaves the current batch entry: the next request, if any, is the
\* first request of the next entry, otherwise the call returns its list
MovesToNextEntry ==
  /\ varlist_ind' = varlist_ind + 1
  /\ rounds' = rounds
  /\ exchanges' = exchanges
  /\ IF varlist_ind + 1 < Len(varlist)
     THEN /\ pc' = "send"
          /\ Len(pdu'.variables) = 1
          /\ pdu'.variables[1].name = varlist[varlist_ind + 2].oid_arr
     ELSE pc' = "returned" /\ ret' = "list"

C11_Step ==
  ReadsResponse
  => \A k \in 1..Len(response.variables) :
       (/\ response.variables[k].type = "SNMP_ENDOFMIBVIEW"
        /\ ValuesInside(response.variables, k, varlist[varlist_ind + 1].oid_arr))
       => /\ result_varlist' = result_varlist \o
               RecordsBefore(response.variables, k, varlist[varlist_ind + 1].tag)
          /\ MovesToNextEntry

\* C11: in every fetch and walk entry point, when a returned variable carries
\* the end-of-view marker, the records appended for the response are exactly
\* those of the variables before it (none for the marker, none for a later
\* variable), and the call leaves the starting path: its next request, if
\* any, is the first one of the next batch entry.
C11_EndOfViewEndsPath == [][C11_Step]_vars

W_C11_EndOfViewEndsPath ==
  /\ ReadsResponse
  /\ op = "bulkwalk"
  /\ Len(varlist) = 2
  /\ varlist_ind = 0
  /\ Len(response.variables) = 2
  /\ response.variables[1].type = "ASN_OCTET_STR"
  /\ InSubtreeName(response.variables[1].name, varlist[1].oid_arr)
  /\ response.variables[2].type = "SNMP_ENDOFMIBVIEW"

C12_Step ==
  ReadsResponse
  => \A k \in 1..Len(response.variables) :
       (/\ response.variables[k].type \in {"SNMP_NOSUCHOBJECT", "SNMP_NOSUCHINSTANCE"}
        /\ ValuesInside(response.variables, k, varlist[varlist_ind + 1].oid_arr))
       => /\ result_varlist' = (result_varlist \o
               RecordsBefore(response.variables, k, varlist[varlist_ind + 1].tag)) \o
               <<MarkerRecord(varlist[varlist_ind + 1].tag, response.variables[k].type)>>
          /\ MovesToNextEntry

\* C12: in every fetch and walk entry point, when a returned variable carries
\* the no-such-object or no-such-instance marker, exactly one placeholder
\* record is appended for it, with the root path as requested and the marker
\* type and nothing read from the response; no record is appended for a
\* later variable and the call leaves the starting path.
C12_NoSuchPlaceholder == [][C12_Step]_vars

W_C12_NoSuchPlaceholder ==
  /\ ReadsResponse
  /\ op = "get"
  /\ Len(response.variables) = 2
  /\ response.variables[1].type = "SNMP_NOSUCHINSTANCE"
  /\ response.variables[2].type = "ASN_OCTET_STR"

\* position of a root path in the batch
EntryOf(root) == CHOOSE i \in 1..Len(varlist) : varlist[i].tag = root

\* a stop of the walk in the response: a marker or a name outside the subtree
HoldsStop(vs, start) ==
  \E k \in 1..Len(vs) :
    \/ vs[k].type \in {"SNMP_ENDOFMIBVIEW", "SNMP_NOSUCHOBJECT", "SNMP_NOSUCHINSTANCE"}
    \/ ~InSubtreeName(vs[k].name, start)

C13_Step ==
  (op \in Ops /\ op' = op)
  => /\ varlist' = varlist
     /\ varlist_ind' \in {varlist_ind, varlist_ind + 1}
     \* the next entry is reached only from a response read, in walks from
     \* one that held a stop
     /\ (varlist_ind' = varlist_ind + 1
         => /\ ReadsResponse
            /\ (IsWalk(op) => HoldsStop(response.variables, varlist[varlist_ind + 1].oid_arr))
            /\ (varlist_ind + 1 < Len(varlist)
                => /\ pc' = "send"
                   /\ pdu'.variables[1].name = varlist[varlist_ind + 2].oid_arr))
     \* a request is for the entry the loop is at
     /\ (pc' = "send" => varlist_ind' < Len(varlist))
     /\ (pc' = "send" /\ ~pdu'.null /\ varlist_ind' = varlist_ind /\ pc = "inspect"
         => InSubtreeName(pdu'.variables[1].name, varlist[varlist_ind + 1].oid_arr))
     \* records are appended, for the entry the loop is at, in response order
     /\ Len(result_varlist') >= Len(result_varlist)
     /\ SubSeq(result_varlist', 1, Len(result_varlist)) = result_varlist
     /\ \A j \in 1..(Len(result_varlist') - Len(result_varlist)) :
          LET rec == result_varlist'[Len(result_varlist) + j]
          IN /\ rec.root_oid = varlist[varlist_ind + 1].tag
             /\ (~rec.placeholder => rec.oid = response.variables[j].name)
     \* the list is in the order of the batch
     /\ \A i, j \in 1..Len(result_varlist') :
          i < j => EntryOf(result_varlist'[i].root_oid) <= EntryOf(result_varlist'[j].root_oid)

\* C13: the entries of a batch are processed one after the other: the loop
\* moves to entry i+1 only after reading a response that ended entry i, the
\* end of one entry is followed by the first request of the next, and the
\* record list grows by appending the records of the current entry in
\* response order, so it is the concatenation in input order.
C13_SequentialBatch == [][C13_Step]_vars

W_C13_SequentialBatch ==
  /\ op = "walk"
  /\ pc = "returned"
  /\ ret = "list"
  /\ Len(varlist) = 2
  /\ varlist[1].tag = "t12"
  /\ rounds = 2
  /\ Len(result_varlist) = 2
  /\ result_varlist[1].root_oid = "t12"
  /\ result_varlist[2].root_oid = "t11"

\* the last exchange ended in a remote error that is not elided, a timeout
\* or a transport failure
ExchangeFailed ==
  /\ exchanges > 0
  /\ transport # NoTransport
  /\ \/ transport.status # STAT_SUCCESS
     \/ transport.null
     \/ /\ transport.errstat # SNMP_ERR_NOERROR
        /\ ~(transport.errstat = SNMP_ERR_NOSUCHNAME /\ retry_nosuch # NO_RETRY_NOSUCH)

C14_Step ==
  /\ (pc = "inspect" /\ op \in Ops /\ ExchangeFailed)
     => /\ pc' = "returned"
        /\ ret' = "NULL"
        /\ (pyerr' # "" \/ error' = 1)
        /\ rounds' = rounds
        /\ exchanges' = exchanges
  /\ (pc = "returned" /\ op \in Ops) => FALSE

\* C14: when an exchange of a fetch or walk call ends in a remote protocol
\* error, a timeout or a transport failure, the call returns NULL (a failure,
\* not the list: the records produced so far are not returned), and nothing
\* is requested afterwards, neither for this entry nor for the remaining ones.
C14_FailureIsBatchFatal == [][C14_Step]_vars

W_C14_FailureIsBatchFatal ==
  /\ op = "walk"
  /\ pc = "returned"
  /\ Len(varlist) = 2
  /\ varlist_ind = 0
  /\ rounds = 2
  /\ Len(result_varlist) > 0
  /\ transport.status = STAT_TIMEOUT
  /\ pyerr = "EasySNMPTimeoutError"
  /\ ret = "NULL"

\* C15: when an entry of the batch resolves to a path of length 0, the call
\* fails with the unknown-object-id exception and performs no request and no
\* exchange, also for the entries before the failing one.
C15_ResolutionFailureLocal ==
  (op \in Ops /\ \E i \in 1..Len(varlist) : Len(varlist[i].oid_arr) = 0)
  => /\ pc = "returned"
     /\ ret = "NULL"
     /\ pyerr = "EasySNMPUnknownObjectIDError"
     /\ rounds = 0
     /\ exchanges = 0
     /\ result_varlist = <<>>

W_C15_ResolutionFailureLocal ==
  /\ op = "getbulk"
  /\ pc = "returned"
  /\ Len(varlist) = 2
  /\ Len(varlist[1].oid_arr) > 0
  /\ Len(varlist[2].oid_arr) = 0
  /\ pyerr = "EasySNMPUnknownObjectIDError"
  /\ exchanges = 0

(***************************************************************************)
(* Properties of the resolver, checked under SpecResolve.                  *)
(***************************************************************************)
HasAlpha(str) == \E i \in 1..Len(str) : str[i] \in {"a"}

OnlyDigitsAndSeparators(str) == \A i \in 1..Len(str) : str[i] \in {"1", "2", "."}

\* a symbolic tag: words of letters between separators, one of them of two
\* letters or more
Symbolic(str) ==
  /\ \A i \in 1..Len(str) : str[i] \in {"a", "."}
  /\ \E i \in 1..(Len(str) - 1) : str[i] = "a" /\ str[i + 1] = "a"

\* the tag names the node of the naming tree, by its label or its full name
NamedInTree(str) == str = <<"a", "a">> \/ str = <<".", "a", "a">>

\* C16: for every tag and every mode, an instance string that contains an
\* alphabetic character makes the resolution fail: the entry is reported as
\* an unknown object id and the path has no component.
C16_AlphaInstanceFails ==
  (rpc = "resolved" /\ HasAlpha(iid))
  => load_error = 1 /\ oid_arr = <<>>

\* C17: an empty tag fails to resolve in every mode, with or without an
\* instance string: the path has length 0 and the failure is reported.
C17_EmptyTagFails ==
  (rpc = "resolved" /\ tag = <<>>)
  => Len(oid_arr) = 0 /\ load_error = 1

\* C18: a symbolic tag that names nothing in the naming tree under the mode
\* chosen resolves to a path of length 0 and is reported, with or without a
\* numeric instance string.
C18_UnmatchedTagNotFound ==
  (/\ rpc = "resolved"
   /\ Symbolic(tag)
   /\ ~NamedInTree(tag)
   /\ ~HasAlpha(iid))
  => Len(oid_arr) = 0 /\ load_error = 1

\* C19: __scan_num_objid fails for every tag that contains an alphabetic
\* character, wherever it stands, and succeeds for the tags made of digits
\* and separators only.
C19_LiteralRejectsAlpha ==
  rpc = "scanned"
  => (scanned.ret = SUCCESS <=> ~HasAlpha(tag))

\* the components of a dotted string, a leading separator dropped
RECURSIVE SplitAt(_, _, _)
SplitAt(str, i, cp) ==
  IF i > Len(str)
  THEN <<SubSeq(str, cp, i - 1)>>
  ELSE IF str[i] = "."
       THEN <<SubSeq(str, cp, i - 1)>> \o SplitAt(str, i + 1, i + 1)
       ELSE SplitAt(str, i + 1, cp)

Components(str) ==
  IF str # <<>> /\ str[1] = "." THEN SplitAt(str, 2, 2) ELSE SplitAt(str, 1, 1)

RECURSIVE NumberOf(_)
NumberOf(digits) ==
  IF digits = <<>>
  THEN 0
  ELSE NumberOf(SubSeq(digits, 1, Len(digits) - 1)) * 10
       + (IF digits[Len(digits)] = "1" THEN 1 ELSE 2)

RECURSIVE Dotted(_)
Dotted(nums) ==
  IF nums = <<>>
  THEN <<>>
  ELSE Dotted(SubSeq(nums, 1, Len(nums) - 1)) \o (<<".">> \o DecStr(nums[Len(nums)]))

RECURSIVE DropEmpty(_)
DropEmpty(cs) ==
  IF cs = <<>>
  THEN <<>>
  ELSE (IF cs[1] = <<>> THEN <<>> ELSE <<cs[1]>>) \o DropEmpty(Tail(cs))

\* C20: for every tag made of digits and separators, formatting the path
\* __scan_num_objid parsed gives the tag in dot-prefixed dotted-decimal: the
\* same components in the same order (an empty component read as absent, or
\* as 0).
C20_LiteralRoundTrip ==
  (/\ rpc = "printed"
   /\ OnlyDigitsAndSeparators(tag)
   /\ \E i \in 1..Len(tag) : tag[i] # ".")
  => \/ text = Dotted([k \in 1..Len(DropEmpty(Components(tag))) |->
                         NumberOf(DropEmpty(Components(tag))[k])])
     \/ text = Dotted([k \in 1..Len(Components(tag)) |-> NumberOf(Components(tag)[k])])

\* C22: every path produced by resolving a (tag, instance) pair has at most
\* MAX_OID_LEN components, for every tag, instance string and mode.
C22_PathWithinMaximum ==
  rpc = "resolved" => Len(oid_arr) <= MAX_OID_LEN

(***************************************************************************)
(* The bit array of the orchestrator, checked under SpecSync.              *)
(***************************************************************************)
\* C30: after any number of elision rounds, whatever the order of the error
\* indices reported (each within the outstanding request), the bits marked
\* are the original indices of the entries stripped, and no bit is marked
\* twice.
C30_MaskIsStrippedSet ==
  (OnlyElisionRounds /\ Len(stripped) = Len(reported))
  => /\ invalid_oids.bits = { stripped[k] - 1 : k \in 1..Len(stripped) }
     /\ \A j, k \in 1..Len(marked) : j # k => marked[j] # marked[k]

(***************************************************************************)
(* The single fetch over a batch, checked under Spec.                      *)
(***************************************************************************)
\* the response read holds exactly the variable requested, with a value
ExactAnswer ==
  /\ ReadsResponse
  /\ op = "get"
  /\ response.errstat = SNMP_ERR_NOERROR
  /\ Len(response.variables) = 1
  /\ response.variables[1].name = varlist[varlist_ind + 1].oid_arr
  /\ response.variables[1].type = "ASN_OCTET_STR"

\* a single fetch on a session handle spends one call of __send_sync_pdu and
\* one exchange per batch entry, in the order of the batch
OneExchangePerEntry ==
  (op = "get" /\ ss = "handle")
  => /\ pc = "send" => rounds = varlist_ind /\ exchanges = varlist_ind
     /\ pc = "retry" => rounds = varlist_ind + 1 /\ exchanges = varlist_ind
     /\ pc = "inspect" => rounds = varlist_ind + 1 /\ exchanges = varlist_ind + 1
     /\ (pc = "send" /\ ~pdu.null)
        => pdu.variables = <<[name |-> varlist[varlist_ind + 1].oid_arr,
                              type |-> "ASN_NULL", orig |-> 1]>>
     /\ (pc = "returned" /\ ret = "list")
        => /\ varlist_ind = Len(varlist)
           /\ rounds = Len(varlist)
           /\ exchanges = Len(varlist)

C28_Step ==
  /\ ExactAnswer
     => /\ result_varlist' =
             Append(result_varlist,
                    ValueRecord(varlist[varlist_ind + 1].tag, varlist[varlist_ind + 1].oid_arr))
        /\ MovesToNextEntry
  /\ OneExchangePerEntry'

\* C28: a single fetch over k resolvable entries, each request answered with
\* exactly the variable requested carrying a value, makes one exchange per
\* entry in input order and appends one record per entry, with the root path
\* of the entry and the type name of the returned wire type (OCTETSTR for an
\* octet string); after k exchanges it returns the k records.
C28_FetchOnePerEntry == [][C28_Step]_vars

W_C28_FetchOnePerEntry ==
  /\ op = "get"
  /\ pc = "returned"
  /\ ret = "list"
  /\ Len(varlist) = 2
  /\ exchanges = 2
  /\ result_varlist = <<ValueRecord("t11", <<1, 1>>), ValueRecord("t12", <<1, 2>>)>>

(***************************************************************************)
(* The type name functions on their own: __get_type_str followed by        *)
(* __translate_appl_type on the name it produced, and                      *)
(* __translate_appl_type on a type specifier as netsnmp_set hands it over. *)
(***************************************************************************)
\* no request is in progress and no entry point has been called
CallIdle ==
  /\ op = "none"
  /\ pc = "off"
  /\ ss = "handle"
  /\ retry_nosuch = NO_RETRY_NOSUCH
  /\ invalid_oids = NoBitarray
  /\ pdu = NoPdu
  /\ response = NoResponse
  /\ status = 0
  /\ err_str = ""
  /\ err_num = 0
  /\ err_ind = 0
  /\ pyerr = ""
  /\ retry_num = 0
  /\ last_errindex = 0
  /\ exchanges = 0
  /\ batch_len = 0
  /\ reported = <<>>
  /\ marked = <<>>
  /\ stripped = <<>>
  /\ transport = NoTransport
  /\ varlist = <<>>
  /\ varlist_ind = 0
  /\ notdone = 0
  /\ result_varlist = <<>>
  /\ error = 0
  /\ ret = "pending"
  /\ rounds = 0

\* the type tags: the ones __get_type_str names and some it does not
TypeTags ==
  { "TYPE_OBJID", "TYPE_OCTETSTR", "TYPE_INTEGER", "TYPE_INTEGER32", "TYPE_UNSIGNED32",
    "TYPE_NETADDR", "TYPE_IPADDR", "TYPE_COUNTER", "TYPE_GAUGE", "TYPE_TIMETICKS",
    "TYPE_OPAQUE", "TYPE_COUNTER64", "TYPE_NULL", "SNMP_ENDOFMIBVIEW", "SNMP_NOSUCHOBJECT",
    "SNMP_NOSUCHINSTANCE", "TYPE_UINTEGER", "TYPE_NOTIFTYPE", "TYPE_BITSTRING",
    "TYPE_TRAPTYPE", "TYPE_OTHER", "TYPE_NSAPADDRESS", "TYPE_MODID" }

\* the names of the table, as strings of characters
TypeNames == { CString(__get_type_str(t)) : t \in { u \in TypeTags : GetTypeStrStatus(u) = SUCCESS } }

ToLower(str) == [i \in 1..Len(str) |-> tolower(str[i])]

\* the type specifiers tried: every prefix of every name, alone and followed
\* by up to MaxTail characters that belong to no name, in upper and in lower
\* case, and the one-character specifiers
Specifiers ==
  LET prefixes == UNION { { SubSeq(n, 1, k) : k \in 0..Len(n) } : n \in TypeNames }
      tails == UNION { [1..k -> {"x"}] : k \in 0..MaxTail }
      upper == { p \o t : p \in prefixes, t \in tails }
  IN upper \cup { ToLower(u) : u \in upper }
     \cup { <<c>> : c \in {"i", "u", "s", "n", "o", "t", "a", "b", "d"} }

\* __get_type_str(val_type, val_type_str, 1)
GetTypeStr ==
  /\ tpc = "start"
  /\ val_type # ""
  /\ val_type_str' = __get_type_str(val_type)
  /\ typestr' = CString(__get_type_str(val_type))
  /\ tpc' = IF GetTypeStrStatus(val_type) = SUCCESS THEN "named" ELSE "unnamed"
  /\ UNCHANGED <<val_type, appl_type>>
  /\ UNCHANGED <<syncVars, opVars, resVars, fmtVars, setVars, thrVars>>

\* __translate_appl_type on the name produced
TranslateName ==
  /\ tpc = "named"
  /\ appl_type' = __translate_appl_type(typestr)
  /\ tpc' = "back"
  /\ UNCHANGED <<val_type, val_type_str, typestr>>
  /\ UNCHANGED <<syncVars, opVars, resVars, fmtVars, setVars, thrVars>>

\* line 2996: type = __translate_appl_type(type_str)
TranslateSpecifier ==
  /\ tpc = "start"
  /\ val_type = ""
  /\ appl_type' = __translate_appl_type(typestr)
  /\ tpc' = "translated"
  /\ UNCHANGED <<val_type, val_type_str, typestr>>
  /\ UNCHANGED <<syncVars, opVars, resVars, fmtVars, setVars, thrVars>>

InitTypes ==
  /\ CallIdle
  /\ ResolverIdle
  /\ FormatIdle
  /\ SetIdle
  /\ ThreadsIdle
  /\ tpc = "start"
  /\ val_type_str = ""
  /\ appl_type = ""
  /\ \/ val_type \in TypeTags /\ typestr = <<>>
     \/ val_type = "" /\ typestr \in Specifiers

NextTypes == GetTypeStr \/ TranslateName \/ TranslateSpecifier

SpecTypes == InitTypes /\ [][NextTypes]_vars

(***************************************************************************)
(* Properties of the type name functions, checked under SpecTypes.         *)
(***************************************************************************)
\* C21: for every type tag __get_type_str names, __translate_appl_type
\* applied to the name gives the tag back.
C21_TypeRoundTrip ==
  tpc = "back" => appl_type = val_type

W_C21_TypeRoundTrip ==
  /\ tpc = "back"
  /\ val_type = "TYPE_COUNTER64"
  /\ typestr = CString("COUNTER64")
  /\ appl_type = "TYPE_COUNTER64"

\* the specifier is, case ignored, a prefix of the name
IsPrefixOf(spec, n) ==
  Len(spec) <= Len(n) /\ ToLower(spec) = ToLower(SubSeq(n, 1, Len(spec)))

\* the tag of a name of the table
TagOf(n) == CHOOSE t \in TypeTags : GetTypeStrStatus(t) = SUCCESS /\ CString(__get_type_str(t)) = n

\* the tag a specifier stands for when it is matched by unambiguous prefix: a
\* whole name stands for itself, a proper prefix for the only name it starts
UniquePrefixTag(spec) ==
  IF \E n \in TypeNames : ToLower(spec) = ToLower(n)
  THEN TagOf(CHOOSE n \in TypeNames : ToLower(spec) = ToLower(n))
  ELSE IF Cardinality({ n \in TypeNames : IsPrefixOf(spec, n) }) = 1
       THEN TagOf(CHOOSE n \in TypeNames : IsPrefixOf(spec, n))
       ELSE TYPE_UNKNOWN

\* C25 as stated: a specifier of two characters or more is mapped to the tag
\* of the one table name it is a prefix of, case ignored, and to Unknown when
\* it is a prefix of no name or of several, or merely starts like a name.
C25_UniquePrefix ==
  (tpc = "translated" /\ Len(typestr) # 1)
  => appl_type = UniquePrefixTag(typestr)

\* the comparisons in the order of the code: the name, the number of leading
\* characters compared (0: the whole string), the tag
ComparedRows ==
  << [name |-> "INTEGER32", n |-> 8, tag |-> "TYPE_INTEGER32"],
     [name |-> "INTEGER", n |-> 3, tag |-> "TYPE_INTEGER"],
     [name |-> "UNSIGNED32", n |-> 3, tag |-> "TYPE_UNSIGNED32"],
     [name |-> "COUNTER", n |-> 0, tag |-> "TYPE_COUNTER"],
     [name |-> "GAUGE", n |-> 3, tag |-> "TYPE_GAUGE"],
     [name |-> "IPADDR", n |-> 3, tag |-> "TYPE_IPADDR"],
     [name |-> "OCTETSTR", n |-> 3, tag |-> "TYPE_OCTETSTR"],
     [name |-> "TICKS", n |-> 3, tag |-> "TYPE_TIMETICKS"],
     [name |-> "OPAQUE", n |-> 3, tag |-> "TYPE_OPAQUE"],
     [name |-> "OBJECTID", n |-> 3, tag |-> "TYPE_OBJID"],
     [name |-> "NETADDR", n |-> 3, tag |-> "TYPE_NETADDR"],
     [name |-> "COUNTER64", n |-> 3, tag |-> "TYPE_COUNTER64"],
     [name |-> "NULL", n |-> 3, tag |-> "TYPE_NULL"],
     [name |-> "BITS", n |-> 3, tag |-> "TYPE_BITSTRING"],
     [name |-> "ENDOFMIBVIEW", n |-> 3, tag |-> "SNMP_ENDOFMIBVIEW"],
     [name |-> "NOSUCHOBJECT", n |-> 7, tag |-> "SNMP_NOSUCHOBJECT"],
     [name |-> "NOSUCHINSTANCE", n |-> 7, tag |-> "SNMP_NOSUCHINSTANCE"],
     [name |-> "UINTEGER", n |-> 3, tag |-> "TYPE_UINTEGER"],
     [name |-> "NOTIF", n |-> 3, tag |-> "TYPE_NOTIFTYPE"],
     [name |-> "TRAP", n |-> 4, tag |-> "TYPE_TRAPTYPE"] >>

\* the specifier has the leading characters of the row, case ignored
RowMatches(spec, row) ==
  IF row.n = 0
  THEN ToLower(spec) = ToLower(CString(row.name))
  ELSE /\ Len(spec) >= row.n
       /\ ToLower(SubSeq(spec, 1, row.n)) = ToLower(SubSeq(CString(row.name), 1, row.n))

\* the tag of the first row that matches
FirstRowTag(spec) ==
  IF \E k \in 1..Len(ComparedRows) : RowMatches(spec, ComparedRows[k])
  THEN ComparedRows[CHOOSE k \in 1..Len(ComparedRows) :
                      /\ RowMatches(spec, ComparedRows[k])
                      /\ \A j \in 1..(k - 1) : ~RowMatches(spec, ComparedRows[j])].tag
  ELSE TYPE_UNKNOWN

\* C25, amended: a specifier of two characters or more is mapped to the tag
\* of the first name, in the order of the code, whose leading characters it
\* has, case ignored: the first 8 of INTEGER32, 7 of NOSUCHOBJECT and
\* NOSUCHINSTANCE, 4 of TRAP, all of COUNTER and the first 3 of the others;
\* what follows these characters is ignored.  Every other specifier of two
\* characters or more, and the empty one, is mapped to Unknown.
C25_LeadingCharacters ==
  (tpc = "translated" /\ Len(typestr) # 1)
  => appl_type = FirstRowTag(typestr)

W_C25_LeadingCharacters ==
  /\ tpc = "translated"
  /\ typestr = <<"i", "n", "t", "x">>
  /\ appl_type = "TYPE_INTEGER"

(***************************************************************************)
(* The formatting part of read_variable on its own: the name left in       *)
(* str_buf is split by __get_label_iid, then the value is written into     *)
(* str_buf by __snprint_value and terminated.                              *)
(***************************************************************************)
\* names netsnmp_sprint_realloc_objid_tree may leave in str_buf: a root alias
\* followed by numbers, names with labels, numeric names
NumberTails == { <<"1">>, <<"3", ".", "6">>, <<"3", ".", "6", ".", "1">> }

PrintedNames ==
  { RootAliases[k].text \o t : k \in 1..Len(RootAliases), t \in NumberTails }
  \cup
  { <<".", "i", "s", "o", ".", "o", "r", "g", ".", "6">>,
    <<"s", "y", "s", ".", "0">>,
    <<"s", "y", "s">>,
    <<".", "1", ".", "3", ".", "6">>,
    <<"1">>,
    <<>> }

\* the flags read_variable hands over: those of the session, and
\* NON_LEAF_NAME when the node is not a leaf
LabelFlags ==
  { s \cup n : s \in { {}, {"USE_LONG_NAMES"}, {"USE_LONG_NAMES", "USE_NUMERIC_OIDS"} },
               n \in { {}, {"NON_LEAF_NAME"} } }

ValueLengths ==
  (0..MaxValLen) \cup ((STR_BUF_SIZE - 1)..(STR_BUF_SIZE + MaxValLen))

ReturnedValues ==
  [type : {"ASN_OCTET_STR", "ASN_OPAQUE"}, val_len : ValueLengths] \cup {NoValue}

\* line 1605: __get_label_iid(str_buf, &oid, &oid_idx, getlabel_flag)
LabelIid ==
  /\ fpc = "start"
  /\ label' = __get_label_iid(str_buf, getlabel_flag)
  /\ fpc' = "labelled"
  /\ UNCHANGED <<getlabel_flag, sprintval_flag, str_buf, value, val_len, copied, terminator>>
  /\ UNCHANGED <<syncVars, opVars, resVars, typeVars, setVars, thrVars>>

\* lines 1613-1615: __snprint_value into str_buf and the terminator
FormatValue ==
  /\ fpc = "labelled"
  /\ LET r == __snprint_value(STR_BUF_SIZE, value, sprintval_flag)
     IN /\ val_len' = r.len
        /\ copied' = r.copied
        /\ terminator' = TerminatorIndex(r.len, STR_BUF_SIZE)
  /\ fpc' = "valued"
  /\ UNCHANGED <<getlabel_flag, sprintval_flag, str_buf, value, label>>
  /\ UNCHANGED <<syncVars, opVars, resVars, typeVars, setVars, thrVars>>

InitFormat ==
  /\ CallIdle
  /\ ResolverIdle
  /\ TypesIdle
  /\ SetIdle
  /\ ThreadsIdle
  /\ fpc = "start"
  /\ getlabel_flag \in LabelFlags
  /\ sprintval_flag \in {USE_BASIC, USE_ENUMS}
  /\ str_buf \in PrintedNames
  /\ value \in ReturnedValues
  /\ label = NoLabel
  /\ val_len = 0
  /\ copied = 0
  /\ terminator = 0

NextFormat == LabelIid \/ FormatValue

SpecFormat == InitFormat /\ [][NextFormat]_vars

(***************************************************************************)
(* Properties of the formatting, checked under SpecFormat.                 *)
(***************************************************************************)
\* C26: an octet-string or opaque value is never rejected: the length of the
\* text is the smaller of the value length and the capacity of the buffer,
\* and the bytes copied and the terminator written at that length lie inside
\* the buffer (indices 0 .. STR_BUF_SIZE - 1).
C26_ValueInsideBuffer ==
  (fpc = "valued" /\ value.type \in {"ASN_OCTET_STR", "ASN_OPAQUE"})
  => /\ val_len = (IF value.val_len < STR_BUF_SIZE THEN value.val_len ELSE STR_BUF_SIZE)
     /\ copied <= STR_BUF_SIZE
     /\ terminator <= STR_BUF_SIZE - 1

\* the name is a root alias followed by numbers
AliasThenNumbers(str, k) == \E t \in NumberTails : str = RootAliases[k].text \o t

\* the name with the alias replaced by its number
AliasAsNumber(str, k) ==
  <<".", RootAliases[k].digit>> \o SubSeq(str, Len(RootAliases[k].text), Len(str))

\* C27: for a name that is not a leaf and begins with a root alias (.ccitt.,
\* .iso., .joint-iso-ccitt.), __get_label_iid succeeds with the label in
\* which the alias is replaced by its number (0, 1, 2) and the rest of the
\* name unchanged, and with an empty instance.
C27_RootAliasSubstituted ==
  \A k \in 1..Len(RootAliases) :
    (/\ fpc # "start"
     /\ "NON_LEAF_NAME" \in getlabel_flag
     /\ "USE_NUMERIC_OIDS" \notin getlabel_flag
     /\ AliasThenNumbers(str_buf, k))
    => /\ label.ret = SUCCESS
       /\ label.last_label = AliasAsNumber(str_buf, k)
       /\ label.iid = <<>>

(***************************************************************************)
(* The write entry point netsnmp_set.                                      *)
(***************************************************************************)
\* a snmp_type attribute that is a string, and one that cannot be read
TypeStr(s) == [null |-> FALSE, str |-> s]

NoTypeStr == [null |-> TRUE, str |-> <<>>]

\* type specifiers that decide how the value is converted
SetTypeSpecs == { CString("INTEGER"), CString("GAUGE"), CString("OCTETSTR") }

\* text values of the tuples: unreadable, empty, a number
SetValues ==
  { [null |-> TRUE, str |-> <<>>], [null |-> FALSE, str |-> <<>>],
    [null |-> FALSE, str |-> <<"1", "2">>] }

\* the tuples of a write call: objects the tree has no type for, with every
\* specifier and value; the same with a specifier the marshaller has no
\* conversion for, an empty one and an unreadable one; an object the tree
\* declares an integer, with another specifier and with none; a tag that
\* does not resolve
SetTuples ==
  LET number == [null |-> FALSE, str |-> <<"1", "2">>]
  IN { [oid_arr |-> <<1, 1>>, type |-> TYPE_UNKNOWN, type_str |-> TypeStr(ts), val |-> v] :
         ts \in SetTypeSpecs, v \in SetValues }
     \cup
     { [oid_arr |-> <<1, 1>>, type |-> TYPE_UNKNOWN, type_str |-> ts, val |-> number] :
         ts \in {TypeStr(CString("COUNTER64")), TypeStr(<<>>), NoTypeStr} }
     \cup
     { [oid_arr |-> <<1, 2>>, type |-> "TYPE_INTEGER", type_str |-> ts, val |-> number] :
         ts \in {TypeStr(CString("OCTETSTR")), TypeStr(<<>>), NoTypeStr} }
     \cup
     { [oid_arr |-> <<>>, type |-> TYPE_UNKNOWN, type_str |-> TypeStr(CString("INTEGER")),
        val |-> number] }

\* the error attributes a session may hold before a call
SessionErrors ==
  { NoSessionError,
    [error_string |-> "genErr", error_number |-> SNMP_ERR_GENERR, error_index |-> 1] }

\* a plausible slip: the session's retry setting is handed on
SetRetryArgument_session(rn) == rn

\* line 3052: the retry argument netsnmp_set hands to __send_sync_pdu,
\* whatever the session's retry_no_such is
SetRetryArgument(rn) == NO_RETRY_NOSUCH

\* lines 2945-3050: netsnmp_set up to the request
SetCall ==
  /\ pc = "idle"
  /\ op = "none"
  /\ \E vl \in SeqsUpTo(SetTuples, MaxTuples) :
       LET r == SetLoop(vl, 1, Pdu("SET", <<>>), <<>>, stale)
       IN /\ set_varlist' = vl
          /\ add_status' = r.statuses
          /\ pdu' = r.pdu
          /\ IF r.exit = "send"
             THEN pc' = "send" /\ UNCHANGED <<pyerr, error, ret>>
             ELSE IF r.exit \in {"no type", "no value"}
             THEN pc' = "returned" /\ ret' = "None" /\ UNCHANGED <<pyerr, error>>
             ELSE pc' = "returned" /\ ret' = "NULL" /\ pyerr' = r.exit /\ error' = 1
  /\ op' = "set"
  /\ retry_nosuch' = SetRetryArgument(retry_no_such)
  /\ UNCHANGED <<ss, invalid_oids, response, status, err_str, err_num,
                 err_ind, retry_num, last_errindex, exchanges, batch_len, reported,
                 marked, stripped, transport>>
  /\ UNCHANGED <<varlist, varlist_ind, notdone, result_varlist, rounds>>
  /\ UNCHANGED <<session, retry_no_such, resVars, typeVars, fmtVars, thrVars>>

\* lines 3054-3080: the session's error attributes are set from what
\* __send_sync_pdu left, then the call returns
SetFinish ==
  /\ pc = "inspect"
  /\ op = "set"
  /\ session' = [error_string |-> err_str, error_number |-> err_num, error_index |-> err_ind]
  /\ IF status # 0
     THEN error' = 1 /\ ret' = "NULL" /\ UNCHANGED response
     ELSE error' = error /\ ret' = "True" /\ response' = NoResponse
  /\ pc' = "returned"
  /\ UNCHANGED <<op, ss, retry_nosuch, invalid_oids, pdu, status, err_str, err_num,
                 err_ind, pyerr, retry_num, last_errindex, exchanges, batch_len, reported,
                 marked, stripped, transport>>
  /\ UNCHANGED <<varlist, varlist_ind, notdone, result_varlist, rounds>>
  /\ UNCHANGED <<set_varlist, add_status, retry_no_such, resVars, typeVars, fmtVars, thrVars>>

\* a session exists, with retry opted in or not, and may hold the error
\* detail of an earlier call; netsnmp_set hands over no bit array
InitSet ==
  /\ op = "none"
  /\ pc = "idle"
  /\ ss \in {"NULL", "handle"}
  /\ retry_nosuch = NO_RETRY_NOSUCH
  /\ invalid_oids = NoBitarray
  /\ pdu = NoPdu
  /\ response = NoResponse
  /\ status = 0
  /\ err_str = ""
  /\ err_num = 0
  /\ err_ind = 0
  /\ pyerr = ""
  /\ retry_num = 0
  /\ last_errindex = 0
  /\ exchanges = 0
  /\ batch_len = 0
  /\ reported = <<>>
  /\ marked = <<>>
  /\ stripped = <<>>
  /\ transport = NoTransport
  /\ varlist = <<>>
  /\ varlist_ind = 0
  /\ notdone = 0
  /\ result_varlist = <<>>
  /\ error = 0
  /\ ret = "pending"
  /\ rounds = 0
  /\ rpc = "off"
  /\ tag = <<>>
  /\ iid = <<>>
  /\ best_guess = 0
  /\ stale \in StaleWords
  /\ scanned = NoScan
  /\ text = <<>>
  /\ oid_arr = <<>>
  /\ load_error = 0
  /\ TypesIdle
  /\ FormatIdle
  /\ ThreadsIdle
  /\ session \in SessionErrors
  /\ set_varlist = <<>>
  /\ add_status = <<>>
  /\ retry_no_such \in {NO_RETRY_NOSUCH, 1}

NextSet == SetCall \/ SyncEnter \/ Exchange \/ SetFinish

SpecSet == InitSet /\ [][NextSet]_vars

(***************************************************************************)
(* Properties of the write call, checked under SpecSet.                    *)
(***************************************************************************)
\* C23: after a write call that reached the exchange, the error attributes
\* of the session are those of this call: the remote status and index when
\* the agent rejected the write, and the cleared values when it succeeded.
C23_SessionErrorsOverwritten ==
  (/\ op = "set"
   /\ pc = "returned"
   /\ exchanges > 0
   /\ transport.status = STAT_SUCCESS
   /\ ~transport.null)
  => IF transport.errstat = SNMP_ERR_NOERROR
     THEN session = NoSessionError
     ELSE /\ session.error_number = transport.errstat
          /\ session.error_index = transport.errindex

\* every tuple resolves and has a type that is determined
AllMarshallable(vl) ==
  \A i \in 1..Len(vl) :
    /\ Len(vl[i].oid_arr) > 0
    /\ \/ vl[i].type # TYPE_UNKNOWN
       \/ ~vl[i].type_str.null /\ __translate_appl_type(vl[i].type_str.str) # TYPE_UNKNOWN

\* C24: for tuples that all resolve and have a determined type, the write
\* call is not aborted by the marshalling: one varbind per tuple is appended,
\* in input order, a tuple whose value is empty or absent gets a zero or
\* empty placeholder and is flagged (FAILURE returned), and the request
\* handed to the exchange carries as many varbinds as tuples.
C24_MarshallerNeverAborts ==
  (op = "set" /\ AllMarshallable(set_varlist))
  => /\ pc = "send" \/ rounds > 0
     /\ Len(add_status) = Len(set_varlist)
     /\ \A i \in 1..Len(add_status) :
          (set_varlist[i].val.null \/ set_varlist[i].val.str = <<>>)
          => add_status[i] = FAILURE
     /\ pc = "send"
        => /\ Len(pdu.variables) = Len(set_varlist)
           /\ \A i \in 1..Len(pdu.variables) :
                /\ pdu.variables[i].name = set_varlist[i].oid_arr
                /\ pdu.variables[i].orig = i
                /\ (set_varlist[i].val.null \/ set_varlist[i].val.str = <<>>)
                   => pdu.variables[i].val \in {0, <<>>}

(***************************************************************************)
(* Sessions used from several threads: the OID output format is one        *)
(* setting of the library, shared by all sessions.  A call holds the       *)
(* interpreter lock except during the exchange (lines 1025-1027).          *)
(***************************************************************************)
\* line 1332: the saved format of a session that made no call yet, the
\* number 0, which is none of the formats the module selects
NoOldFormat == "0"

\* the session attributes get_session_context reads for the format
SessionFlags == [use_long_names : BOOLEAN, use_numeric : BOOLEAN]

RECURSIVE CallsMade(_)
CallsMade(n) == IF n = 0 THEN 0 ELSE sessions[n].calls + CallsMade(n - 1)

\* lines 1386-1414: what get_session_context leaves in the library setting
FormatAfterContext(flags, current) ==
  IF flags.use_long_names THEN "NETSNMP_OID_OUTPUT_FULL"
  ELSE IF flags.use_numeric THEN "NETSNMP_OID_OUTPUT_NUMERIC"
  ELSE current

\* a call of session sid from get_session_context to the exchange, where
\* the interpreter lock is released; first_format remembers the setting
\* found by the session's first call (bookkeeping of the model only)
ThreadCall(sid) ==
  /\ sessions[sid].at = "idle"
  /\ CallsMade(MaxSessions) < MaxCalls
  /\ sessions' = [sessions EXCEPT ![sid].old_format = oid_output_format,
                                  ![sid].first_format =
                                     IF sessions[sid].calls = 0 THEN oid_output_format ELSE @,
                                  ![sid].calls = @ + 1,
                                  ![sid].at = "exchange"]
  /\ oid_output_format' = FormatAfterContext(sessions[sid].flags, oid_output_format)
  /\ UNCHANGED <<syncVars, opVars, resVars, typeVars, fmtVars, setVars>>

\* the exchange of session sid has ended, the lock is held again and
\* read_variable prints the names of the result records with
\* netsnmp_sprint_realloc_objid_tree, which reads the library setting
ThreadFormat(sid) ==
  /\ sessions[sid].at = "exchange"
  /\ sessions' = [sessions EXCEPT ![sid].formatted = oid_output_format,
                                  ![sid].at = "idle"]
  /\ UNCHANGED oid_output_format
  /\ UNCHANGED <<syncVars, opVars, resVars, typeVars, fmtVars, setVars>>

\* delete_session_capsule: the setting saved by the session's last call is
\* written back, 0 when the session made no call
DeleteSession(sid) ==
  /\ sessions[sid].at = "idle"
  /\ oid_output_format' = sessions[sid].old_format
  /\ sessions' = [sessions EXCEPT ![sid].at = "closed"]
  /\ UNCHANGED <<syncVars, opVars, resVars, typeVars, fmtVars, setVars>>

\* the library is initialised (lines 205-209) and the sessions exist
InitThreads ==
  /\ CallIdle
  /\ ResolverIdle
  /\ TypesIdle
  /\ FormatIdle
  /\ SetIdle
  /\ oid_output_format = "NETSNMP_OID_OUTPUT_SUFFIX"
  /\ sessions \in [1..MaxSessions ->
                     [flags : SessionFlags, old_format : {NoOldFormat},
                      first_format : {""}, calls : {0}, at : {"idle"},
                      formatted : {""}]]

NextThreads ==
  \E sid \in 1..MaxSessions :
    ThreadCall(sid) \/ ThreadFormat(sid) \/ DeleteSession(sid)

SpecThreads == InitThreads /\ [][NextThreads]_vars

\* the format a session's flags select: long names, numeric, or the
\* default the library was initialised with
SelectedFormat(flags) ==
  IF flags.use_long_names THEN "NETSNMP_OID_OUTPUT_FULL"
  ELSE IF flags.use_numeric THEN "NETSNMP_OID_OUTPUT_NUMERIC"
  ELSE "NETSNMP_OID_OUTPUT_SUFFIX"

\* C29: whatever calls were made before and however the calls of distinct
\* sessions interleave, the output format in effect while a call formats
\* its result records is the one its own session's flags select.
C29_FormatOfOwnSession ==
  \A sid \in DOMAIN sessions :
    sessions[sid].formatted # ""
    => sessions[sid].formatted = SelectedFormat(sessions[sid].flags)

(***************************************************************************)
(* The error index heuristic, checked under SpecSync.                      *)
(***************************************************************************)
\* C31 as stated: in every elision round after the first, an index not
\* greater than the last one reported marks its own bit, and a strictly
\* greater one marks its bit plus the number of entries already eliminated.
C31_NotGreaterIsDirect ==
  \A k \in 2..Len(marked) :
    marked[k] = IF reported[k] <= reported[k - 1]
                THEN reported[k] - 1
                ELSE reported[k] - 1 + (k - 1)

\* C31: in every elision round after the first, an index strictly lower than
\* the last one reported marks its own bit (index - 1), and an index equal to
\* or greater than the last one marks its bit plus the number of entries
\* already eliminated.
C31_StrictlyLowerIsDirect ==
  \A k \in 2..Len(marked) :
    marked[k] = IF reported[k] < reported[k - 1]
                THEN reported[k] - 1
                ELSE reported[k] - 1 + (k - 1)

W_C31_StrictlyLowerIsDirect ==
  /\ OnlyElisionRounds
  /\ batch_len = 3
  /\ reported = <<2, 2, 1>>
  /\ marked = <<1, 2, 0>>

\* every index reported so far lies within the request it was reported for
IndicesWithinOutstanding ==
  \A k \in 1..Len(reported) : reported[k] \in 1..(batch_len - (k - 1))

\* C32: for a batch of N entries, when every reported error index lies in
\* 1..number of outstanding entries, every bit position computed and every
\* bit set in the mask lies in 0..N-1.
C32_BitsInsideBatch ==
  (pc # "send" /\ IndicesWithinOutstanding)
  => /\ \A k \in 1..Len(marked) : marked[k] \in 0..(batch_len - 1)
     /\ invalid_oids.bits \subseteq 0..(batch_len - 1)

W_C32_BitsInsideBatch ==
  /\ OnlyElisionRounds
  /\ IndicesWithinOutstanding
  /\ batch_len = 3
  /\ reported = <<1, 2, 1>>
  /\ marked = <<0, 2, 0>>
  /\ (batch_len - 1) \in invalid_oids.bits

\* C37: a write call never retries with elision, whatever the session's
\* retry setting: it makes at most one exchange, no entry is stripped and no
\* bit is marked, and an "object does not exist" answer ends the call after
\* that one exchange with the no-such-name failure.
C37_WriteNeverElides ==
  op = "set"
  => /\ exchanges <= 1
     /\ stripped = <<>>
     /\ marked = <<>>
     /\ pc # "crashed"
     /\ (rounds > 0 => ~pdu.null /\ Len(pdu.variables) = Len(set_varlist))
     /\ (/\ pc = "returned"
         /\ transport.status = STAT_SUCCESS
         /\ ~transport.null
         /\ transport.errstat = SNMP_ERR_NOSUCHNAME)
        => /\ exchanges = 1
           /\ pyerr = "EasySNMPNoSuchNameError"
           /\ error = 1
           /\ ret = "NULL"

W_C37_WriteNeverElides ==
  /\ op = "set"
  /\ retry_no_such = 1
  /\ Len(set_varlist) = 2
  /\ pc = "returned"
  /\ exchanges = 1
  /\ transport.errstat = SNMP_ERR_NOSUCHNAME
  /\ transport.errindex = 1
  /\ Len(pdu.variables) = 2
  /\ error = 1

\* the type the tree declares when it is known, else the one the caller's
\* specifier names, Unknown when the specifier is empty, unreadable or names
\* nothing
DeclaredOrSpecified(tuple) ==
  IF tuple.type # TYPE_UNKNOWN THEN tuple.type
  ELSE IF tuple.type_str.null THEN TYPE_UNKNOWN
  ELSE __translate_appl_type(tuple.type_str.str)

\* every tag of the write call resolves and every value can be read
TypesDecide(vl) ==
  \A i \in 1..Len(vl) : Len(vl[i].oid_arr) > 0 /\ ~vl[i].val.null

\* C40: in a write call whose tags resolve and whose values can be read,
\* every tuple is marshalled with the type the tree declares, or with the
\* caller's specifier when the tree's type is Unknown; when both are Unknown
\* for some tuple the call fails with the undetermined-type failure and no
\* request is submitted, whatever was marshalled before.
C40_TreeTypeFirst ==
  (op = "set" /\ TypesDecide(set_varlist))
  => IF \E i \in 1..Len(set_varlist) : DeclaredOrSpecified(set_varlist[i]) = TYPE_UNKNOWN
     THEN /\ pc = "returned"
          /\ rounds = 0
          /\ exchanges = 0
          /\ pdu.null
          /\ pyerr = "EasySNMPUndeterminedTypeError"
          /\ error = 1
          /\ ret = "NULL"
     ELSE pc = "send"
          => /\ Len(pdu.variables) = Len(set_varlist)
             /\ \A i \in 1..Len(pdu.variables) :
                  pdu.variables[i].type =
                    VarVal(TmpValStr(set_varlist[i].val), Len(set_varlist[i].val.str),
                           DeclaredOrSpecified(set_varlist[i]), stale).type

\* session sid is destroyed in this step
Destroyed(sid) == sessions[sid].at # "closed" /\ sessions'[sid].at = "closed"

C38_Step ==
  \A sid \in DOMAIN sessions :
    Destroyed(sid)
    => /\ sessions[sid].calls > 0 => oid_output_format' = sessions[sid].first_format
       /\ (\A other \in DOMAIN sessions : sessions'[other].at = "closed")
          => oid_output_format' = "NETSNMP_OID_OUTPUT_SUFFIX"

\* C38: when a session is destroyed the library's output format is set back
\* to the value it had before that session's first call, however many calls
\* it made and whatever other sessions did; once every session is destroyed
\* the format is the default the library was initialised with.
C38_FormatRestored == [][C38_Step]_vars

(***************************************************************************)
(* The fetch and walk entry points on a session that may hold the error    *)
(* detail of an earlier call.                                              *)
(***************************************************************************)
InitSession ==
  /\ op = "none"
  /\ pc = "idle"
  /\ ss \in {"NULL", "handle"}
  /\ retry_nosuch \in {NO_RETRY_NOSUCH, 1}
  /\ invalid_oids = NoBitarray
  /\ pdu = NoPdu
  /\ response = NoResponse
  /\ status = 0
  /\ err_str = ""
  /\ err_num = 0
  /\ err_ind = 0
  /\ pyerr = ""
  /\ retry_num = 0
  /\ last_errindex = 0
  /\ exchanges = 0
  /\ batch_len = 0
  /\ reported = <<>>
  /\ marked = <<>>
  /\ stripped = <<>>
  /\ transport = NoTransport
  /\ varlist = <<>>
  /\ varlist_ind = 0
  /\ notdone = 0
  /\ result_varlist = <<>>
  /\ error = 0
  /\ ret = "pending"
  /\ rounds = 0
  /\ ResolverIdle
  /\ TypesIdle
  /\ FormatIdle
  /\ ThreadsIdle
  /\ session \in SessionErrors
  /\ set_varlist = <<>>
  /\ add_status = <<>>
  /\ retry_no_such = NO_RETRY_NOSUCH

NextSession == Call \/ SyncEnter \/ Exchange \/ Inspect

SpecSession == InitSession /\ [][NextSession]_vars

\* in a fetch or walk call the error attributes of the session change only
\* in the step in which the call returns a failure with no exception raised
C39_Step ==
  (op' \in Ops /\ session' # session)
  => /\ pc' = "returned"
     /\ ret' = "NULL"
     /\ pyerr' = ""
     /\ error' = 1
     /\ session' = [error_string |-> err_str', error_number |-> err_num',
                    error_index |-> err_ind']

\* C39: a fetch or walk call that succeeds, or that fails with an exception
\* raised, leaves error_string, error_number and error_index of the session
\* as they were; only a fetch that fails without an exception rewrites them,
\* so the detail of an earlier failure is still there after a successful
\* fetch.
C39_SuccessKeepsSessionErrors == [][C39_Step]_vars

W_C39_SuccessKeepsSessionErrors ==
  /\ op = "walk"
  /\ pc = "returned"
  /\ ret = "list"
  /\ exchanges > 1
  /\ Len(result_varlist) > 0
  /\ err_str = ""
  /\ session = [error_string |-> "genErr", error_number |-> SNMP_ERR_GENERR,
                error_index |-> 1]

(***************************************************************************)
(* Properties of walk and of the fetch entry points, checked under Spec.   *)
(***************************************************************************)
\* C34: every request walk and bulk walk hand to __send_sync_pdu exists and
\* carries exactly one entry, whatever the transport answered before.
C34_WalkRequestHasOneEntry ==
  (IsWalk(op) /\ pc = "send") => ~pdu.null /\ Len(pdu.variables) = 1

(***************************************************************************)
(* The fetch and walk entry points against the tree agent, with every call *)
(* running on until it returns.                                            *)
(***************************************************************************)
InitWalk ==
  /\ op = "none"
  /\ pc = "idle"
  /\ ss = TreeAgent
  /\ retry_nosuch \in {NO_RETRY_NOSUCH, 1}
  /\ invalid_oids = NoBitarray
  /\ pdu = NoPdu
  /\ response = NoResponse
  /\ status = 0
  /\ err_str = ""
  /\ err_num = 0
  /\ err_ind = 0
  /\ pyerr = ""
  /\ retry_num = 0
  /\ last_errindex = 0
  /\ exchanges = 0
  /\ batch_len = 0
  /\ reported = <<>>
  /\ marked = <<>>
  /\ stripped = <<>>
  /\ transport = NoTransport
  /\ varlist = <<>>
  /\ varlist_ind = 0
  /\ notdone = 0
  /\ result_varlist = <<>>
  /\ error = 0
  /\ ret = "pending"
  /\ rounds = 0
  /\ ResolverIdle
  /\ AuxIdle

NextWalk == Call \/ SyncEnter \/ Exchange \/ Inspect

\* a call that can take a step takes one
SpecWalk == InitWalk /\ [][NextWalk]_vars /\ WF_vars(NextWalk)

\* C33: against an agent over a finite tree that answers every next-object
\* request with greater names or with the no-such-name error status, a walk
\* or bulk walk eventually ends, with its records or with a failure, with
\* and without retry opted in.
C33_WalkTerminates == <>(pc \in {"returned", "crashed"})

(***************************************************************************)
(* Properties of the records of the fetch and walk entry points, checked   *)
(* under Spec.                                                             *)
(***************************************************************************)
\* the resolved starting path of the batch entry a record was read for
StartingPathOf(r) == varlist[EntryOf(r.root_oid)].oid_arr

\* every record read from a returned variable has a name below the starting
\* path of its batch entry
RecordsBelowStartingPath(records) ==
  \A i \in 1..Len(records) :
    ~records[i].placeholder => InSubtreeName(records[i].oid, StartingPathOf(records[i]))

\* the response to a next-object or bulk fetch is being read and its first
\* variable lies outside the starting path of the entry
FirstVariableOutside ==
  /\ op \in {"getnext", "getbulk"}
  /\ pc = "inspect"
  /\ ~response.null
  /\ Len(response.variables) >= 1
  /\ ~InSubtreeName(response.variables[1].name, varlist[varlist_ind + 1].oid_arr)

C35_AsStatedStep ==
  /\ pc = "inspect" => RecordsBelowStartingPath(result_varlist')
  /\ FirstVariableOutside => result_varlist' = result_varlist

\* the placeholder record is the one record such a response can add: the
\* marker test of the loop comes before the test of the name
C35_Step ==
  /\ pc = "inspect" => RecordsBelowStartingPath(result_varlist')
  /\ FirstVariableOutside =>
       IF IsNoSuch(response.variables[1]) /\ ~RequestFailed(status, pyerr)
       THEN result_varlist' =
              Append(result_varlist,
                     PlaceholderRecord(response.variables[1], varlist[varlist_ind + 1].tag))
       ELSE result_varlist' = result_varlist

\* C35 as stated: the starting path of its batch entry is an exact prefix
\* of the name of every non-placeholder record, and a next-object or bulk
\* fetch whose first returned variable lies outside the starting path
\* appends no record at all for that entry.
C35_NoRecordWhenFirstOutside == [][C35_AsStatedStep]_vars

\* C35: the starting path of its batch entry is an exact prefix of the name
\* of every non-placeholder record of get, getnext, getbulk, walk and
\* bulkwalk; a next-object or bulk fetch whose first returned variable lies
\* outside the starting path appends no record for that entry, except the
\* placeholder record when that variable carries the no-such-object or
\* no-such-instance marker.
C35_RecordsBelowStartingPath == [][C35_Step]_vars

\* the second entry of a next-object or bulk fetch is answered with a first
\* variable outside its starting path that is no marker, after the first
\* entry gave a record with a name longer than its starting path
W_C35_RecordsBelowStartingPath ==
  /\ FirstVariableOutside
  /\ ~IsNoSuch(response.variables[1])
  /\ ~IsEndOfMibView(response.variables[1])
  /\ varlist_ind = 1
  /\ Len(result_varlist) >= 1
  /\ \A i \in 1..Len(result_varlist) :
       /\ ~result_varlist[i].placeholder
       /\ Len(result_varlist[i].oid) > Len(StartingPathOf(result_varlist[i]))

\* the entry points that make one request per batch entry
IsFetch(o) == o \in {"get", "getnext", "getbulk"}

\* a request about to be sent is the one built from the resolved path of the
\* entry at varlist_ind, and it is the first of that entry; at the retry
\* label and after the exchange the round is the only one of its entry; a
\* request of one entry leaves nothing to resubmit after an elision, so no
\* round has a second exchange
C36_Step ==
  IsFetch(op') =>
    /\ pc' = "send" =>
         /\ pdu' = FirstRequest(op', varlist'[varlist_ind' + 1])
         /\ rounds' = varlist_ind'
    /\ pc' \in {"retry", "inspect"} => rounds' = varlist_ind' + 1
    /\ (pc' = "returned" /\ ret' = "list") => rounds' = Len(varlist')
    /\ exchanges' <= rounds'

\* C36: get, getnext and getbulk make exactly one round per batch entry:
\* whatever the response holds, the next request is built from the next
\* entry's resolved path and never from a returned name, and an entry has no
\* exchange beyond those of its one round.
C36_OneRoundPerEntry == [][C36_Step]_vars

\* a bulk fetch of two entries has returned after two rounds, having read
\* several names below the first entry's path from one response
W_C36_OneRoundPerEntry ==
  /\ op = "getbulk"
  /\ pc = "returned"
  /\ ret = "list"
  /\ Len(varlist) = 2
  /\ rounds = 2
  /\ exchanges = 2
  /\ Len(result_varlist) >= 3
  /\ result_varlist[1].root_oid = result_varlist[2].root_oid
  /\ result_varlist[1].oid # result_varlist[2].oid

====
